---- MODULE Spec2Model ----
(***************************************************************************)
(* Xplorer's file-operation core (internal/fileops: Manager, ProgressInfo) *)
(* together with the parts of internal/app and internal/ui that drive it:  *)
(* the input loop's context menu, which stages the clipboard and launches  *)
(* Paste and Delete as goroutines, and updateProgressDisplay and           *)
(* DrawProgressBar, which read ProgressInfo behind its readers-writer lock.*)
(*                                                                         *)
(* The source of fileops.go is the second file held in                     *)
(* src/internal/fileops/fileops_test.go (from line 319 on).                *)
(***************************************************************************)
EXTENDS Integers, Sequences, FiniteSets, TLC

(***************************************************************************)
(* Bounds of the model.                                                    *)
(***************************************************************************)
\* background operations (goroutines) the input loop launches in one run
MaxOps == 2
\* the same, in the runs on whole trees
MaxTreeOps == 2
\* longest path, in components, that the host accepts (longer: ENAMETOOLONG)
PathDepthMax == 3
\* range of getUniqueDestPath's int counter before it wraps around
CounterWrap == 8
\* calls a sequential caller of the Manager makes in one run
MaxCalls == 3
\* calls of the single-shot methods (Rename, CreateFile, CreateFolder, selection,
\* staging) a caller makes in one run
MaxEdits == 3
\* background operations the input loop launches in one run of the browser
MaxNavOps == 1
\* presses of Space and renames in one run of the browser
MaxNavEdits == 2
\* lines of the file panel (the terminal's height less 4) in the runs on the listing
VisibleLines == 2
MaxBookCalls == 5

(***************************************************************************)
(* Names and paths.  A name is a sequence of tokens, a path a sequence of  *)
(* names below the root <<>>.  A token is one character, or "_copy", the   *)
(* only token that starts with an underscore.  Code gives a token's first  *)
(* byte, by which os.ReadDir sorts.                                        *)
(***************************************************************************)
Code(t) ==
    CASE t = "." -> 46
      [] t = "-" -> 45
      [] t = "0" -> 48
      [] t = "1" -> 49
      [] t = "2" -> 50
      [] t = "3" -> 51
      [] t = "4" -> 52
      [] t = "5" -> 53
      [] t = "6" -> 54
      [] t = "7" -> 55
      [] t = "8" -> 56
      [] t = "9" -> 57
      [] t = "_copy" -> 95
      [] t = "d" -> 100
      [] t = "f" -> 102
      [] t = "r" -> 114
      [] t = "t" -> 116
      [] t = "w" -> 119
      [] OTHER -> 127

RECURSIVE NameLess(_, _)
NameLess(a, b) ==
    IF a = <<>> THEN b # <<>>
    ELSE IF b = <<>> THEN FALSE
    ELSE IF Code(Head(a)) # Code(Head(b)) THEN Code(Head(a)) < Code(Head(b))
    ELSE NameLess(Tail(a), Tail(b))

\* the names of S in increasing order: the i-th has i - 1 names of S before it
SortNames(S) ==
    [i \in 1..Cardinality(S) |->
        CHOOSE x \in S : Cardinality({y \in S : NameLess(y, x)}) = i - 1]

\* %d of a counter, as tokens
RECURSIVE Decimal(_)
Decimal(n) ==
    LET digits == <<"0", "1", "2", "3", "4", "5", "6", "7", "8", "9">>
    IN  IF n < 0 THEN <<"-">> \o Decimal(0 - n)
        ELSE IF n < 10 THEN <<digits[n + 1]>>
        ELSE Decimal(n \div 10) \o <<digits[(n % 10) + 1]>>

\* filepath.Base, filepath.Dir, filepath.Join on component sequences; Join cleans its
\* result, so an empty element adds nothing
Base(p) == IF p = <<>> THEN <<>> ELSE p[Len(p)]
Dir(p) == IF p = <<>> THEN <<>> ELSE SubSeq(p, 1, Len(p) - 1)
Join(d, n) == IF n = <<>> THEN d ELSE Append(d, n)

IsPrefix(a, b) == Len(a) <= Len(b) /\ SubSeq(b, 1, Len(a)) = a
IsProperPrefix(a, b) == Len(a) < Len(b) /\ SubSeq(b, 1, Len(a)) = a

\* filepath.Ext of a name: the suffix that starts at the name's last dot
RECURSIVE LastDot(_, _)
LastDot(n, i) == IF i = 0 THEN 0 ELSE IF n[i] = "." THEN i ELSE LastDot(n, i - 1)
Ext(n) == LET i == LastDot(n, Len(n)) IN IF i = 0 THEN <<>> ELSE SubSeq(n, i, Len(n))
NameWithoutExt(n) == SubSeq(n, 1, Len(n) - Len(Ext(n)))

\* fmt.Sprintf("%s_copy%d%s", nameWithoutExt, counter, ext) on the last component
CopyName(n, counter) == NameWithoutExt(n) \o <<"_copy">> \o Decimal(counter) \o Ext(n)

(***************************************************************************)
(* The filesystem: a function from the paths that exist to their nodes.    *)
(* A file's content is the first `size` bytes of the content `cid`.        *)
(***************************************************************************)
DirNode == [isDir |-> TRUE, size |-> 0, cid |-> 0]
FileNode(c, n) == [isDir |-> FALSE, size |-> n, cid |-> c]

\* copyFileWithProgress's buffer: make([]byte, 32*1024)
ChunkSize == 32 * 1024

N_d == <<"d">>
N_f == <<"f">>
N_r == <<"r">>
N_t == <<"t">>
N_w == <<"w">>
N_0 == <<"0">>
N_1txt == <<"1", ".", "t">>

\* directories whose entries the process may not look up (no search permission)
NoSearch == {<<N_r>>}

\* directories in which the process may not create, rename or remove entries (no write
\* permission)
NoWrite == {<<N_w>>}

\* os.Stat: "ok", "notexist" (ENOENT), or "other" (ENOTDIR, EACCES, ENAMETOOLONG)
Stat(f, p) ==
    IF \/ Len(p) > PathDepthMax
       \/ \E k \in 0..(Len(p) - 1) :
             LET q == SubSeq(p, 1, k)
             IN  q \in DOMAIN f /\ (~f[q].isDir \/ q \in NoSearch)
    THEN "other"
    ELSE IF p \in DOMAIN f THEN "ok" ELSE "notexist"

Exists(f, p) == p \in DOMAIN f
Under(f, p) == {q \in DOMAIN f : IsPrefix(p, q)}

RECURSIVE SumSizes(_, _)
SumSizes(f, S) ==
    IF S = {} THEN 0
    ELSE LET q == CHOOSE x \in S : TRUE IN f[q].size + SumSizes(f, S \ {q})

\* getPathSize with the errors of os.Stat and filepath.Walk dropped
getPathSizeDropsErrors(f, path) ==
    IF Stat(f, path) # "ok" THEN [err |-> FALSE, size |-> 0]
    ELSE IF ~f[path].isDir THEN [err |-> FALSE, size |-> f[path].size]
    ELSE [err |-> FALSE, size |-> SumSizes(f, {q \in Under(f, path) : ~f[q].isDir})]

\* getPathSize without the walk: what os.Stat gives for the path itself
getPathSizeOfEntry(f, path) ==
    IF Stat(f, path) # "ok" THEN [err |-> TRUE, size |-> 0]
    ELSE [err |-> FALSE, size |-> f[path].size]

\* getPathSize: os.Stat, then for a directory filepath.Walk adding the files' sizes
getPathSize(f, path) ==
    IF Stat(f, path) # "ok" THEN [err |-> TRUE, size |-> 0]
    ELSE IF ~f[path].isDir THEN [err |-> FALSE, size |-> f[path].size]
    ELSE IF \E q \in Under(f, path) : Stat(f, q) # "ok" THEN [err |-> TRUE, size |-> 0]
    ELSE [err |-> FALSE, size |-> SumSizes(f, {q \in Under(f, path) : ~f[q].isDir})]

\* calculateTotalSize with a path that is not there counted as 0 bytes
RECURSIVE calculateTotalSizeSkipsMissing(_, _)
calculateTotalSizeSkipsMissing(f, files) ==
    IF files = <<>> THEN [err |-> FALSE, size |-> 0]
    ELSE LET one == IF Stat(f, Head(files)) = "notexist" THEN [err |-> FALSE, size |-> 0]
                    ELSE getPathSize(f, Head(files))
             rest == calculateTotalSizeSkipsMissing(f, Tail(files))
         IN  IF one.err \/ rest.err THEN [err |-> TRUE, size |-> 0]
             ELSE [err |-> FALSE, size |-> one.size + rest.size]

RECURSIVE calculateTotalSize(_, _)
calculateTotalSize(f, files) ==
    IF files = <<>> THEN [err |-> FALSE, size |-> 0]
    ELSE LET one == getPathSize(f, Head(files))
             rest == calculateTotalSize(f, Tail(files))
         IN  IF one.err \/ rest.err THEN [err |-> TRUE, size |-> 0]
             ELSE [err |-> FALSE, size |-> one.size + rest.size]

\* os.ReadDir: the directory's entries sorted by filename, each with its type
ReadDir(f, d) ==
    LET names == {q[Len(q)] : q \in {x \in DOMAIN f : Len(x) = Len(d) + 1 /\ IsPrefix(d, x)}}
        sorted == SortNames(names)
    IN  [i \in 1..Len(sorted) |-> [name |-> sorted[i], isDir |-> f[Join(d, sorted[i])].isDir]]

\* os.MkdirAll(dst): dst and its missing parents become directories
MkdirAllFails(f, p) ==
    \/ Len(p) > PathDepthMax
    \/ \E k \in 0..Len(p) : LET q == SubSeq(p, 1, k) IN q \in DOMAIN f /\ ~f[q].isDir
    \/ \E k \in 0..(Len(p) - 1) : SubSeq(p, 1, k) \in NoSearch
    \/ \E k \in 1..Len(p) :
          SubSeq(p, 1, k) \notin DOMAIN f /\ SubSeq(p, 1, k - 1) \in NoWrite
MkdirAll(f, p) ==
    LET new == {SubSeq(p, 1, k) : k \in 0..Len(p)} \ DOMAIN f
    IN  [q \in DOMAIN f \cup new |-> IF q \in DOMAIN f THEN f[q] ELSE DirNode]

\* os.Create(dst): an empty regular file at dst, truncating a file that is there
CreateFails(f, p) ==
    \/ Stat(f, p) = "other"
    \/ Dir(p) \notin DOMAIN f
    \/ (p \in DOMAIN f /\ f[p].isDir)
    \/ (p \notin DOMAIN f /\ Dir(p) \in NoWrite)
Create(f, p, c) == [q \in DOMAIN f \cup {p} |-> IF q = p THEN FileNode(c, 0) ELSE f[q]]

\* a write that leaves the last byte of the chunk out
WriteChunkShort(f, p, n) ==
    IF p \in DOMAIN f /\ ~f[p].isDir /\ n > 0 THEN [f EXCEPT ![p].size = @ + n - 1] ELSE f

\* dstFile.Write(buf[:n]) through the open handle
WriteChunk(f, p, n) ==
    IF p \in DOMAIN f /\ ~f[p].isDir THEN [f EXCEPT ![p].size = @ + n] ELSE f

\* os.Rename(src, dst)
RenameFails(f, src, dst) ==
    \/ Stat(f, src) # "ok"
    \/ Stat(f, dst) = "other"
    \/ Dir(dst) \notin DOMAIN f
    \/ IsPrefix(src, dst)
    \/ (dst \in DOMAIN f /\ (f[dst].isDir \/ f[src].isDir))
    \/ Dir(src) \in NoWrite
    \/ Dir(dst) \in NoWrite
RenameKeepsSource(f, src, dst) ==
    LET moved == Under(f, src)
        to(q) == dst \o SubSeq(q, Len(src) + 1, Len(q))
    IN  [q \in DOMAIN f \cup {to(x) : x \in moved} |->
            IF \E x \in moved : to(x) = q
            THEN f[CHOOSE x \in moved : to(x) = q]
            ELSE f[q]]
Rename(f, src, dst) ==
    LET moved == Under(f, src)
        to(q) == dst \o SubSeq(q, Len(src) + 1, Len(q))
        kept == DOMAIN f \ moved
    IN  [q \in kept \cup {to(x) : x \in moved} |->
            IF \E x \in moved : to(x) = q
            THEN f[CHOOSE x \in moved : to(x) = q]
            ELSE f[q]]

\* os.RemoveAll(path): path and everything below it; no error when it is absent
RemoveAllFails(f, p) ==
    \/ Stat(f, p) = "other"
    \/ \E q \in Under(f, p) : q # <<>> /\ Dir(q) \in NoWrite
\* os.Remove(path): the path alone, what lies below it stays
RemoveOnly(f, p) == [q \in DOMAIN f \ {p} |-> f[q]]
RemoveAll(f, p) == [q \in DOMAIN f \ Under(f, p) |-> f[q]]

\* os.Mkdir(path): one directory, in a parent that is there
MkdirFails(f, p) ==
    \/ Stat(f, p) # "notexist"
    \/ Dir(p) \notin DOMAIN f
    \/ Dir(p) \in NoWrite
Mkdir(f, p) == [q \in DOMAIN f \cup {p} |-> IF q = p THEN DirNode ELSE f[q]]

(***************************************************************************)
(* Manager: Rename, CreateFile, CreateFolder.  Each is given as what it    *)
(* returns and the filesystem it leaves: err is "nil" or names the error.  *)
(***************************************************************************)
\* a Rename that, finding the new name in use, takes the first _copy name instead
ManagerRenameUnique(f, oldPath, newName) ==
    LET dir == Dir(oldPath)
        newPath == Join(dir, newName)
        other == Join(dir, CopyName(newName, 1))
    IN  IF oldPath = newPath THEN [err |-> "nil", fs |-> f]
        ELSE IF Stat(f, newPath) = "ok"
        THEN IF RenameFails(f, oldPath, other) THEN [err |-> "os", fs |-> f]
             ELSE [err |-> "nil", fs |-> Rename(f, oldPath, other)]
        ELSE IF RenameFails(f, oldPath, newPath) THEN [err |-> "os", fs |-> f]
        ELSE [err |-> "nil", fs |-> Rename(f, oldPath, newPath)]

\* Manager.Rename
ManagerRename(f, oldPath, newName) ==
    LET dir == Dir(oldPath)
        newPath == Join(dir, newName)
    IN  IF oldPath = newPath THEN [err |-> "nil", fs |-> f]
        ELSE IF Stat(f, newPath) = "ok" THEN [err |-> "exists", fs |-> f]
        ELSE IF RenameFails(f, oldPath, newPath) THEN [err |-> "os", fs |-> f]
        ELSE [err |-> "nil", fs |-> Rename(f, oldPath, newPath)]

\* Manager.CreateFile
CreateFile(f, dir, filename) ==
    LET filePath == Join(dir, filename)
    IN  IF filename = <<>> THEN [err |-> "empty", fs |-> f]
        ELSE IF Stat(f, filePath) = "ok" THEN [err |-> "exists", fs |-> f]
        ELSE IF CreateFails(f, filePath) THEN [err |-> "os", fs |-> f]
        ELSE [err |-> "nil", fs |-> Create(f, filePath, 0)]

\* a CreateFolder that makes the missing parents too (os.MkdirAll)
CreateFolderAll(f, dir, foldername) ==
    LET folderPath == Join(dir, foldername)
    IN  IF foldername = <<>> THEN [err |-> "empty", fs |-> f]
        ELSE IF Stat(f, folderPath) = "ok" THEN [err |-> "exists", fs |-> f]
        ELSE IF MkdirAllFails(f, folderPath) THEN [err |-> "os", fs |-> f]
        ELSE [err |-> "nil", fs |-> MkdirAll(f, folderPath)]

\* Manager.CreateFolder
CreateFolder(f, dir, foldername) ==
    LET folderPath == Join(dir, foldername)
    IN  IF foldername = <<>> THEN [err |-> "empty", fs |-> f]
        ELSE IF Stat(f, folderPath) = "ok" THEN [err |-> "exists", fs |-> f]
        ELSE IF MkdirFails(f, folderPath) THEN [err |-> "os", fs |-> f]
        ELSE [err |-> "nil", fs |-> Mkdir(f, folderPath)]

(***************************************************************************)
(* Manager: the selection, a map[string]bool: a function from the keys it  *)
(* holds to their values.                                                  *)
(***************************************************************************)
\* make(map[string]bool)
NoSelection == [path \in {} |-> TRUE]

\* Manager.IsSelected: m.selectedFiles[path], false for a key the map does not hold
IsSelected(selected, path) == path \in DOMAIN selected /\ selected[path]

\* a toggle that only ever selects
ToggleSelectionAdds(selected, path) ==
    [q \in DOMAIN selected \cup {path} |-> IF q = path THEN TRUE ELSE selected[q]]

\* a toggle that deselects by storing false under the key
ToggleSelectionKeepsKey(selected, path) ==
    [q \in DOMAIN selected \cup {path} |->
        IF q = path THEN ~IsSelected(selected, path) ELSE selected[q]]

\* Manager.ToggleSelection: the map after the call
ToggleSelection(selected, path) ==
    IF IsSelected(selected, path)
    THEN [q \in DOMAIN selected \ {path} |-> selected[q]]
    ELSE [q \in DOMAIN selected \cup {path} |-> IF q = path THEN TRUE ELSE selected[q]]

\* Manager.GetSelectedCount: len(m.selectedFiles)
GetSelectedCount(selected) == Cardinality(DOMAIN selected)

\* Manager.GetSelectedFiles: the keys appended in the order `range` yields them, which
\* Go leaves open; the lists the call can return
GetSelectedFiles(selected) ==
    {l \in [1..Cardinality(DOMAIN selected) -> DOMAIN selected] :
        \A i, j \in DOMAIN l : i # j => l[i] # l[j]}

(***************************************************************************)
(* State.                                                                  *)
(***************************************************************************)
VARIABLES
    fs,                      \* the filesystem
    clipboard,               \* Manager.clipboard
    operation,               \* Manager.operation
    selectedFiles,           \* Manager.selectedFiles, a map[string]bool
    progress,                \* Manager.progress (ProgressInfo's fields)
    ops,                     \* the goroutines launched by handleContextMenu
    uiPc,                    \* where the input loop stands
    lastOperationWasActive,  \* App.lastOperationWasActive
    progressHideTime,        \* App.progressHideTime: "zero" (IsZero) or "set"
    Mu,                      \* ProgressInfo.Mu: the read locks held, the writers waiting
    navigator,               \* App.navigator (Navigator.currentDir)
    ret,                     \* the last call of Rename, CreateFile, CreateFolder or of the
                             \* selection and staging methods, and what it returned
    bookmarks                \* bookmark.Manager.bookmarks

vars == <<fs, clipboard, operation, selectedFiles, progress, ops, uiPc,
          lastOperationWasActive, progressHideTime, Mu, navigator, ret, bookmarks>>

OpNone == "OpNone"
OpCopy == "OpCopy"
OpCut == "OpCut"
OpDelete == "OpDelete"

P_d == <<N_d>>
P_f == <<N_f>>
P_r == <<N_r>>
P_t == <<N_t>>

\* no call of the single-shot methods yet; n counts them
NoCall == [call |-> "none", args |-> <<>>, err |-> "nil", n |-> 0]

\* the tree the program is started on
InitFs ==
    (<<>> :> DirNode) @@ (P_d :> DirNode) @@ (P_t :> DirNode) @@ (P_r :> DirNode)
    @@ (P_f :> FileNode(3, ChunkSize + 20))
    @@ (<<N_d, N_0>> :> FileNode(1, 10))
    @@ (<<N_d, N_1txt>> :> FileNode(2, 30))

\* what the user stages or deletes, and where the user pastes, while operations overlap
StageLists == {<<P_d>>}
DeleteLists == {<<P_f>>}
DestDirs == {P_t}

\* the same for one operation at a time on whole trees
TreeStageLists == {<<P_f, P_d>>}
TreeDeleteLists == {<<P_d, P_f>>}
TreeDestDirs == {P_t, P_d, P_r}

\* NewManager
NewProgress ==
    [Operation |-> OpNone, TotalBytes |-> 0, ProcessedBytes |-> 0, TotalFiles |-> 0,
     ProcessedFiles |-> 0, CurrentFile |-> <<>>, Active |-> FALSE]

Init ==
    /\ fs = InitFs
    /\ clipboard = <<>>
    /\ operation = OpNone
    /\ selectedFiles = NoSelection
    /\ progress = NewProgress
    /\ ops = <<>>
    /\ uiPc = "idle"
    /\ lastOperationWasActive = FALSE
    /\ progressHideTime = "zero"
    /\ Mu = [readers |-> 0, waiting |-> {}]
    /\ navigator = [currentDir |-> <<>>]
    /\ ret = NoCall
    /\ bookmarks = <<>>

(***************************************************************************)
(* Manager: the progress writers, each one critical section of Mu.         *)
(***************************************************************************)
\* startProgress without the reset of the processed counters
startProgressKeepsCounters(op, totalFiles, totalBytes) ==
    [progress EXCEPT !.Operation = op, !.TotalBytes = totalBytes,
                     !.TotalFiles = totalFiles, !.Active = TRUE]

startProgress(op, totalFiles, totalBytes) ==
    [Operation |-> op, TotalBytes |-> totalBytes, ProcessedBytes |-> 0,
     TotalFiles |-> totalFiles, ProcessedFiles |-> 0, CurrentFile |-> <<>>,
     Active |-> TRUE]

updateProgress(pr, processedBytes, currentFile) ==
    [pr EXCEPT !.ProcessedBytes = processedBytes, !.CurrentFile = currentFile]

\* a finishProgress that also forgets the file it worked on last
finishProgressDropsFile(pr) == [pr EXCEPT !.Active = FALSE, !.CurrentFile = <<>>]

finishProgress(pr) == [pr EXCEPT !.Active = FALSE]

IsOperationActive == progress.Active

\* ProgressInfo.GetProgressPercent: Go's integer division of non-negative int64 values
GetProgressPercent(pr) ==
    IF pr.TotalBytes = 0 THEN 0 ELSE (pr.ProcessedBytes * 100) \div pr.TotalBytes
HasClipboard == Len(clipboard) > 0

(***************************************************************************)
(* A goroutine running Paste or Delete.  pc is its position; files, idx,   *)
(* processedBytes, srcPath, destPath, counter are the locals of Paste,     *)
(* Delete and getUniqueDestPath; stack holds the live calls of             *)
(* copyDirWithProgress and cur the file copyFileWithProgress has open.     *)
(* staged, stagedOp, stagedFiles, acts, cleared and started record, for the *)
(* properties, what was staged when the call began and what the call has   *)
(* done since; src0 is what the staged paths held then, and dsts the       *)
(* destination each handled path was given.  When the call returns its     *)
(* locals are gone.                                                        *)
(***************************************************************************)
NoFile == [src |-> <<>>, dst |-> <<>>, left |-> 0, cid |-> 0]

NewOp(kind, dest, files) ==
    [kind |-> kind, pc |-> IF kind = "paste" THEN "check" ELSE "dsize",
     destDir |-> dest, files |-> files, idx |-> 1, processedBytes |-> 0,
     srcPath |-> <<>>, destPath |-> <<>>, counter |-> 0, stack |-> <<>>,
     totalSize |-> 0, cur |-> NoFile, err |-> FALSE,
     staged |-> <<>>, stagedOp |-> OpNone, stagedFiles |-> 0, acts |-> <<>>,
     cleared |-> FALSE, started |-> FALSE, src0 |-> <<>>, dsts |-> <<>>]

Running(i) == i \in DOMAIN ops /\ ops[i].pc # "done"

\* Paste or Delete has returned, with or without an error
Done(o) == [NewOp(o.kind, <<>>, <<>>) EXCEPT !.pc = "done", !.err = o.err]

\* an error that is noted while the loop goes on to the next path
FailGoesOn(o) == [o EXCEPT !.err = TRUE, !.pc = IF o.kind = "paste" THEN "count" ELSE "dcount"]

\* a failure that leaves the loop for the statements after it
FailRunsOn(o) == [o EXCEPT !.pc = "clear", !.err = TRUE]

\* a return after `defer m.finishProgress()`: the deferred call runs, then the caller resumes
Fail(o) == [o EXCEPT !.pc = "return", !.err = TRUE]

\* counter += 2 on an int that wraps around
IncrByTwo(counter) == IF counter + 2 >= CounterWrap THEN 0 - CounterWrap ELSE counter + 2

\* counter++ on an int that wraps around
Incr(counter) == IF counter + 1 >= CounterWrap THEN 0 - CounterWrap ELSE counter + 1

(***************************************************************************)
(* ProgressInfo.Mu, a sync.RWMutex.  A writer that calls Lock while a read  *)
(* lock is held waits, and from then on RLock waits behind it.  A writer    *)
(* that finds no read lock held takes the lock within its own step.         *)
(***************************************************************************)
\* Mu.RLock() returns
RLockFree == Mu.waiting = {}

\* Mu.Lock() returns
LockFree == Mu.readers = 0

\* the goroutine's next statement is a progress write: startProgress, updateProgress,
\* the ProcessedFiles increment, finishProgress
NeedsMu(o) ==
    \/ o.pc \in {"start", "chunk", "count", "return", "dstart", "diter", "dcount"}
    \/ /\ o.pc = "fopen"
       /\ Stat(fs, o.cur.src) = "ok"
       /\ ~fs[o.cur.src].isDir
       /\ ~CreateFails(fs, o.cur.dst)
    \/ o.pc = "br2" /\ operation = OpCut

\* Mu.Lock() called while a read lock is held: the writer starts to wait
LockWait(i) ==
    /\ Running(i) /\ NeedsMu(ops[i])
    /\ ~LockFree
    /\ i \notin Mu.waiting
    /\ Mu' = [Mu EXCEPT !.waiting = @ \cup {i}]
    /\ UNCHANGED <<navigator, ret, fs, clipboard, operation, selectedFiles, progress, ops, uiPc,
                   lastOperationWasActive, progressHideTime,
                   bookmarks>>

\* the lock as a goroutine's step sees it: a progress write needs Mu.Lock() to return
Lock(i) ==
    /\ (NeedsMu(ops[i]) \/ i \in Mu.waiting) => LockFree
    /\ Mu' = [Mu EXCEPT !.waiting = @ \ {i}]

(***************************************************************************)
(* The transfer primitives.  A step of a goroutine ends where the next     *)
(* statement reads or writes memory that the input loop or the renderer    *)
(* also uses (the clipboard, the operation tag, ProgressInfo).             *)
(***************************************************************************)
\* the calls of copyDirWithProgress whose entries are all done return
RECURSIVE Unwind(_)
Unwind(stack) ==
    IF stack = <<>> THEN <<>>
    ELSE LET top == stack[Len(stack)]
         IN  IF top.i > Len(top.entries) THEN Unwind(SubSeq(stack, 1, Len(stack) - 1))
             ELSE stack

\* copyDirWithProgress's loop: after a nil return, the innermost call that has an
\* entry left takes it (a directory or a file); with no call left, Paste counts the path
Resume(o, stack) ==
    LET rest == Unwind(stack)
        n == Len(rest)
        top == rest[n]
        e == top.entries[top.i]
    IN  IF rest = <<>>
        THEN [o EXCEPT !.stack = <<>>, !.cur = NoFile, !.pc = "count"]
        ELSE [o EXCEPT !.stack = [rest EXCEPT ![n].i = @ + 1],
                       !.cur = [NoFile EXCEPT !.src = Join(top.src, e.name),
                                              !.dst = Join(top.dst, e.name)],
                       !.pc = IF e.isDir THEN "cdir" ELSE "fopen"]

\* copyFileOrDirWithProgress: os.Stat(src), then the directory or the file copy
copyFileOrDirWithProgress(f, o, src, dst) ==
    LET c == [o EXCEPT !.cur = [NoFile EXCEPT !.src = src, !.dst = dst]]
    IN  IF Stat(f, src) # "ok" THEN Fail(c)
        ELSE IF f[src].isDir THEN [c EXCEPT !.pc = "cdir"]
        ELSE [c EXCEPT !.pc = "fopen"]

\* copyDirWithProgress up to its loop: os.Stat(src), os.MkdirAll(dst), os.ReadDir(src)
CopyDir(i) ==
    /\ Running(i) /\ ops[i].pc = "cdir"
    /\ Lock(i)
    /\ LET o == ops[i]
           made == MkdirAll(fs, o.cur.dst)
       IN  IF Stat(fs, o.cur.src) # "ok" \/ MkdirAllFails(fs, o.cur.dst)
           THEN /\ fs' = fs
                /\ ops' = [ops EXCEPT ![i] = Fail(o)]
           ELSE /\ fs' = made
                /\ ops' = [ops EXCEPT ![i] =
                        IF ~made[o.cur.src].isDir THEN Fail(o)
                        ELSE Resume(o, Append(o.stack,
                                 [src |-> o.cur.src, dst |-> o.cur.dst,
                                  entries |-> ReadDir(made, o.cur.src), i |-> 1]))]
    /\ UNCHANGED <<navigator, ret, clipboard, operation, selectedFiles, progress, uiPc,
                   lastOperationWasActive, progressHideTime,
                   bookmarks>>

\* the end of copyFileWithProgress, after io.EOF: os.Stat(src), os.Chmod(dst, mode)
FileDone(f, o) ==
    IF Stat(f, o.cur.src) # "ok" \/ Stat(f, o.cur.dst) # "ok" THEN Fail(o)
    ELSE Resume(o, o.stack)

\* copyFileWithProgress up to its loop: os.Open(src), os.Create(dst), m.updateProgress
FileOpen(i) ==
    /\ Running(i) /\ ops[i].pc = "fopen"
    /\ Lock(i)
    /\ LET o == ops[i]
           src == o.cur.src
           made == Create(fs, o.cur.dst, fs[src].cid)
           opened == [o EXCEPT !.pc = "chunk", !.cur.left = fs[src].size,
                               !.cur.cid = fs[src].cid]
       IN  IF Stat(fs, src) # "ok" \/ fs[src].isDir \/ CreateFails(fs, o.cur.dst)
           THEN /\ fs' = fs
                /\ progress' = progress
                /\ ops' = [ops EXCEPT ![i] = Fail(o)]
           ELSE /\ fs' = made
                /\ progress' = updateProgress(progress, o.processedBytes, Base(src))
                /\ ops' = [ops EXCEPT ![i] =
                        IF opened.cur.left = 0 THEN FileDone(made, opened) ELSE opened]
    /\ UNCHANGED <<navigator, ret, clipboard, operation, selectedFiles, uiPc,
                   lastOperationWasActive, progressHideTime,
                   bookmarks>>

\* one turn of copyFileWithProgress's loop: a chunk is read, written, added to
\* *processedBytes and published; the turn that reads io.EOF ends the copy
FileChunk(i) ==
    /\ Running(i) /\ ops[i].pc = "chunk"
    /\ Lock(i)
    /\ LET o == ops[i]
           n == IF o.cur.left < ChunkSize THEN o.cur.left ELSE ChunkSize
           written == WriteChunk(fs, o.cur.dst, n)
           after == [o EXCEPT !.processedBytes = @ + n, !.cur.left = @ - n]
       IN  /\ fs' = written
           /\ progress' = updateProgress(progress, o.processedBytes + n, Base(o.cur.src))
           /\ ops' = [ops EXCEPT ![i] =
                   IF after.cur.left = 0 THEN FileDone(written, after) ELSE after]
    /\ UNCHANGED <<navigator, ret, clipboard, operation, selectedFiles, uiPc,
                   lastOperationWasActive, progressHideTime,
                   bookmarks>>

(***************************************************************************)
(* Manager.Paste.                                                          *)
(***************************************************************************)
\* the regular files that the paths of a list hold
CountFiles(f, files) ==
    Cardinality({q \in DOMAIN f : ~f[q].isDir /\ \E k \in DOMAIN files : IsPrefix(files[k], q)})

\* the trees below the paths of a list, as sizing walks them
TreesOf(f, files) ==
    [q \in UNION {Under(f, files[k]) : k \in DOMAIN files} |-> f[q]]

\* Paste's sizing without the check of the clipboard's length
PasteSizeUnchecked(i) ==
    /\ Running(i) /\ ops[i].pc = "check"
    /\ Lock(i)
    /\ LET o == [ops[i] EXCEPT !.staged = clipboard, !.stagedOp = operation,
                                !.stagedFiles = CountFiles(fs, clipboard),
                                !.src0 = TreesOf(fs, clipboard)]
           r == calculateTotalSize(fs, clipboard)
       IN  ops' = [ops EXCEPT ![i] =
                IF r.err
                THEN Done([o EXCEPT !.err = TRUE])
                ELSE [o EXCEPT !.pc = "start", !.totalSize = r.size]]
    /\ UNCHANGED <<navigator, ret, fs, clipboard, operation, selectedFiles, progress, uiPc,
                   lastOperationWasActive, progressHideTime,
                   bookmarks>>

\* if len(m.clipboard) == 0 { return error }; totalSize, err := m.calculateTotalSize(m.clipboard)
PasteSize(i) ==
    /\ Running(i) /\ ops[i].pc = "check"
    /\ Lock(i)
    /\ LET o == [ops[i] EXCEPT !.staged = clipboard, !.stagedOp = operation,
                                !.stagedFiles = CountFiles(fs, clipboard),
                                !.src0 = TreesOf(fs, clipboard)]
           r == calculateTotalSize(fs, clipboard)
       IN  ops' = [ops EXCEPT ![i] =
                IF Len(clipboard) = 0 \/ r.err
                THEN Done([o EXCEPT !.err = TRUE])
                ELSE [o EXCEPT !.pc = "start", !.totalSize = r.size]]
    /\ UNCHANGED <<navigator, ret, fs, clipboard, operation, selectedFiles, progress, uiPc,
                   lastOperationWasActive, progressHideTime,
                   bookmarks>>

\* m.startProgress(m.operation, len(m.clipboard), totalSize); defer m.finishProgress()
PasteStart(i) ==
    /\ Running(i) /\ ops[i].pc = "start"
    /\ Lock(i)
    /\ progress' = startProgress(operation, Len(clipboard), ops[i].totalSize)
    /\ ops' = [ops EXCEPT ![i] = [@ EXCEPT !.pc = "range", !.started = TRUE,
                                            !.processedBytes = 0]]
    /\ UNCHANGED <<navigator, ret, fs, clipboard, operation, selectedFiles, uiPc,
                   lastOperationWasActive, progressHideTime,
                   bookmarks>>

\* the loop head without getUniqueDestPath: the destination is destDir/fileName as it is
PasteHeadKeepsName(f, o) ==
    LET src == o.files[o.idx]
        dest == Join(o.destDir, Base(src))
    IN  IF o.idx > Len(o.files) THEN [o EXCEPT !.pc = "clear"]
        ELSE [o EXCEPT !.pc = "br1", !.srcPath = src, !.destPath = dest]

\* the loop head for the path at idx: destPath := filepath.Join(destDir, fileName) and
\* getUniqueDestPath's first os.Stat
PasteHead(f, o) ==
    LET src == o.files[o.idx]
        dest == Join(o.destDir, Base(src))
    IN  IF o.idx > Len(o.files) THEN [o EXCEPT !.pc = "clear"]
        ELSE IF Stat(f, dest) = "notexist"
        THEN [o EXCEPT !.pc = "br1", !.srcPath = src, !.destPath = dest]
        ELSE [o EXCEPT !.pc = "probe", !.srcPath = src, !.destPath = dest, !.counter = 1]

\* for _, srcPath := range m.clipboard: the slice is read once, here
PasteRange(i) ==
    /\ Running(i) /\ ops[i].pc = "range"
    /\ Lock(i)
    /\ ops' = [ops EXCEPT ![i] = PasteHead(fs, [@ EXCEPT !.files = clipboard, !.idx = 1])]
    /\ UNCHANGED <<navigator, ret, fs, clipboard, operation, selectedFiles, progress, uiPc,
                   lastOperationWasActive, progressHideTime,
                   bookmarks>>

\* one turn of getUniqueDestPath's loop
PasteProbe(i) ==
    /\ Running(i) /\ ops[i].pc = "probe"
    /\ Lock(i)
    /\ LET o == ops[i]
           newPath == Join(Dir(o.destPath), CopyName(Base(o.destPath), o.counter))
       IN  ops' = [ops EXCEPT ![i] =
                IF Stat(fs, newPath) = "notexist"
                THEN [o EXCEPT !.pc = "br1", !.destPath = newPath]
                ELSE [o EXCEPT !.counter = Incr(o.counter)]]
    /\ UNCHANGED <<navigator, ret, fs, clipboard, operation, selectedFiles, progress, uiPc,
                   lastOperationWasActive, progressHideTime,
                   bookmarks>>

\* if m.operation == OpCopy { m.copyFileOrDirWithProgress(srcPath, destPath, &processedBytes)
PasteBr1(i) ==
    /\ Running(i) /\ ops[i].pc = "br1"
    /\ Lock(i)
    /\ LET o == ops[i]
       IN  ops' = [ops EXCEPT ![i] =
                IF operation = OpCopy
                THEN copyFileOrDirWithProgress(fs,
                         [o EXCEPT !.acts = Append(@, [src |-> o.srcPath, how |-> "copy"]),
                                   !.dsts = Append(@, o.destPath)],
                         o.srcPath, o.destPath)
                ELSE [o EXCEPT !.pc = "br2"]]
    /\ UNCHANGED <<navigator, ret, fs, clipboard, operation, selectedFiles, progress, uiPc,
                   lastOperationWasActive, progressHideTime,
                   bookmarks>>

\* the size added for a move: size, _ := m.getPathSize(srcPath), after os.Rename
CutSize(f, srcPath) == getPathSize(f, srcPath).size

\* } else if m.operation == OpCut { m.updateProgress(processedBytes, fileName);
\* os.Rename(srcPath, destPath); size, _ := m.getPathSize(srcPath); processedBytes += size }
PasteBr2(i) ==
    /\ Running(i) /\ ops[i].pc = "br2"
    /\ Lock(i)
    /\ LET o == ops[i]
           moved == Rename(fs, o.srcPath, o.destPath)
       IN  IF operation # OpCut
           THEN /\ fs' = fs
                /\ progress' = progress
                /\ ops' = [ops EXCEPT ![i] =
                        [o EXCEPT !.pc = "count",
                                  !.acts = Append(@, [src |-> o.srcPath, how |-> "skip"]),
                                  !.dsts = Append(@, o.destPath)]]
           ELSE /\ progress' = updateProgress(progress, o.processedBytes, Base(o.srcPath))
                /\ IF RenameFails(fs, o.srcPath, o.destPath)
                   THEN /\ fs' = fs
                        /\ ops' = [ops EXCEPT ![i] = Fail(o)]
                   ELSE /\ fs' = moved
                        /\ ops' = [ops EXCEPT ![i] =
                                [o EXCEPT !.pc = "count",
                                          !.processedBytes = @ + CutSize(moved, o.srcPath),
                                          !.acts = Append(@, [src |-> o.srcPath,
                                                              how |-> "move"]),
                                          !.dsts = Append(@, o.destPath)]]
    /\ UNCHANGED <<navigator, ret, clipboard, operation, selectedFiles, uiPc,
                   lastOperationWasActive, progressHideTime,
                   bookmarks>>

\* m.progress.Mu.Lock(); m.progress.ProcessedFiles++; m.progress.Mu.Unlock(), then the
\* loop head for the next path
PasteCount(i) ==
    /\ Running(i) /\ ops[i].pc = "count"
    /\ Lock(i)
    /\ progress' = [progress EXCEPT !.ProcessedFiles = @ + 1]
    /\ ops' = [ops EXCEPT ![i] = PasteHead(fs, [@ EXCEPT !.idx = @ + 1])]
    /\ UNCHANGED <<navigator, ret, fs, clipboard, operation, selectedFiles, uiPc,
                   lastOperationWasActive, progressHideTime,
                   bookmarks>>

\* if m.operation == OpCut { m.clipboard = make([]string, 0)
PasteClear(i) ==
    /\ Running(i) /\ ops[i].pc = "clear"
    /\ Lock(i)
    /\ IF operation = OpCut
       THEN /\ clipboard' = <<>>
            /\ ops' = [ops EXCEPT ![i] = [@ EXCEPT !.pc = "clear2", !.cleared = TRUE]]
       ELSE /\ clipboard' = clipboard
            /\ ops' = [ops EXCEPT ![i] = [@ EXCEPT !.pc = "return"]]
    /\ UNCHANGED <<navigator, ret, fs, operation, selectedFiles, progress, uiPc,
                   lastOperationWasActive, progressHideTime,
                   bookmarks>>

\* the end of the clearing without the assignment to the tag
PasteClear2KeepsTag(i) ==
    /\ Running(i) /\ ops[i].pc = "clear2"
    /\ Lock(i)
    /\ operation' = operation
    /\ ops' = [ops EXCEPT ![i] = [@ EXCEPT !.pc = "return"]]
    /\ UNCHANGED <<navigator, ret, fs, clipboard, selectedFiles, progress, uiPc,
                   lastOperationWasActive, progressHideTime,
                   bookmarks>>

\* m.operation = OpNone }
PasteClear2(i) ==
    /\ Running(i) /\ ops[i].pc = "clear2"
    /\ Lock(i)
    /\ operation' = OpNone
    /\ ops' = [ops EXCEPT ![i] = [@ EXCEPT !.pc = "return"]]
    /\ UNCHANGED <<navigator, ret, fs, clipboard, selectedFiles, progress, uiPc,
                   lastOperationWasActive, progressHideTime,
                   bookmarks>>

\* the goroutine after its call has returned: a.fileOpsManager.ClearSelection() after Delete
AfterCall(o) == selectedFiles' = IF o.kind = "delete" THEN NoSelection ELSE selectedFiles

\* the deferred m.finishProgress(), then Paste or Delete returns
OpReturn(i) ==
    /\ Running(i) /\ ops[i].pc = "return"
    /\ Lock(i)
    /\ progress' = finishProgress(progress)
    /\ ops' = [ops EXCEPT ![i] = Done(@)]
    /\ AfterCall(ops[i])
    /\ UNCHANGED <<navigator, ret, fs, clipboard, operation, uiPc,
                   lastOperationWasActive, progressHideTime,
                   bookmarks>>

(***************************************************************************)
(* Manager.Delete.                                                         *)
(***************************************************************************)
\* totalSize, err := m.calculateTotalSize(files)
DeleteSize(i) ==
    /\ Running(i) /\ ops[i].pc = "dsize"
    /\ Lock(i)
    /\ LET r == calculateTotalSize(fs, ops[i].files)
       IN  /\ ops' = [ops EXCEPT ![i] =
                   IF r.err
                   THEN Done([@ EXCEPT !.err = TRUE])
                   ELSE [@ EXCEPT !.pc = "dstart", !.totalSize = r.size,
                                  !.src0 = TreesOf(fs, ops[i].files)]]
           /\ selectedFiles' = IF r.err THEN NoSelection ELSE selectedFiles
    /\ UNCHANGED <<navigator, ret, fs, clipboard, operation, progress, uiPc,
                   lastOperationWasActive, progressHideTime,
                   bookmarks>>

\* m.startProgress(OpDelete, len(files), totalSize); defer m.finishProgress()
DeleteStart(i) ==
    /\ Running(i) /\ ops[i].pc = "dstart"
    /\ Lock(i)
    /\ progress' = startProgress(OpDelete, Len(ops[i].files), ops[i].totalSize)
    /\ ops' = [ops EXCEPT ![i] =
            [@ EXCEPT !.pc = IF Len(ops[i].files) = 0 THEN "return" ELSE "diter",
                      !.started = TRUE, !.processedBytes = 0, !.idx = 1]]
    /\ UNCHANGED <<navigator, ret, fs, clipboard, operation, selectedFiles, uiPc,
                   lastOperationWasActive, progressHideTime,
                   bookmarks>>

\* one turn of Delete's loop up to the count: m.updateProgress(processedBytes, fileName);
\* size, _ := m.getPathSize(path); os.RemoveAll(path); processedBytes += size
DeleteIter(i) ==
    /\ Running(i) /\ ops[i].pc = "diter"
    /\ Lock(i)
    /\ LET o == ops[i]
           path == o.files[o.idx]
           size == getPathSize(fs, path).size
       IN  /\ progress' = updateProgress(progress, o.processedBytes, Base(path))
           /\ IF RemoveAllFails(fs, path)
              THEN /\ fs' = fs
                   /\ ops' = [ops EXCEPT ![i] = Fail([o EXCEPT !.srcPath = path])]
              ELSE /\ fs' = RemoveAll(fs, path)
                   /\ ops' = [ops EXCEPT ![i] =
                           [o EXCEPT !.pc = "dcount", !.srcPath = path,
                                     !.processedBytes = @ + size,
                                     !.acts = Append(@, [src |-> path, how |-> "remove"])]]
    /\ UNCHANGED <<navigator, ret, clipboard, operation, selectedFiles, uiPc,
                   lastOperationWasActive, progressHideTime,
                   bookmarks>>

\* m.progress.Mu.Lock(); m.progress.ProcessedFiles++; m.progress.Mu.Unlock()
DeleteCount(i) ==
    /\ Running(i) /\ ops[i].pc = "dcount"
    /\ Lock(i)
    /\ progress' = [progress EXCEPT !.ProcessedFiles = @ + 1]
    /\ ops' = [ops EXCEPT ![i] =
            [@ EXCEPT !.idx = @ + 1,
                      !.pc = IF ops[i].idx + 1 > Len(ops[i].files) THEN "return"
                             ELSE "diter"]]
    /\ UNCHANGED <<navigator, ret, fs, clipboard, operation, selectedFiles, uiPc,
                   lastOperationWasActive, progressHideTime,
                   bookmarks>>

(***************************************************************************)
(* Manager: staging.                                                       *)
(***************************************************************************)
\* a Copy that stages the paths after those already staged
CopyAppends(files) ==
    /\ clipboard' = clipboard \o files
    /\ operation' = OpCopy

\* Manager.Copy
Copy(files) ==
    /\ clipboard' = files
    /\ operation' = OpCopy

\* Manager.Cut
Cut(files) ==
    /\ clipboard' = files
    /\ operation' = OpCut

\* Manager.ClearSelection
ClearSelection == selectedFiles' = NoSelection

(***************************************************************************)
(* App: the input loop.  eventLoop handles an event, calls                 *)
(* drawWithProgress, then updateProgressDisplay, which ends with           *)
(* drawWithProgress again; uiPc is "idle" in PollEvent.  A step of the loop *)
(* runs up to the next place where it can have to wait for Mu.             *)
(***************************************************************************)
\* the k-th drawWithProgress of a turn of eventLoop: where it is inside DrawProgressBar's
\* second read lock, and where the loop goes on after it
SpeedPc(k) == IF k = 1 THEN "speed1" ELSE "speed2"
AfterDraw(k) == IF k = 1 THEN "upd" ELSE "idle"

\* DrawProgressBar up to its call of GetSpeed: the snapshot under RLock; nothing more is
\* read when no operation is active; otherwise progress.Mu.RLock() is taken again
DrawProgressBar(k) ==
    IF progress.Active
    THEN /\ Mu' = [Mu EXCEPT !.readers = @ + 1]
         /\ uiPc' = SpeedPc(k)
    ELSE /\ Mu' = Mu
         /\ uiPc' = AfterDraw(k)

\* progress.GetSpeed() inside DrawProgressBar's read lock: p.Mu.RLock() once more, the
\* read, then both read locks are released
GetSpeed(k) ==
    /\ uiPc = SpeedPc(k)
    /\ RLockFree
    /\ Mu' = [Mu EXCEPT !.readers = @ - 1]
    /\ uiPc' = AfterDraw(k)
    /\ UNCHANGED <<navigator, ret, fs, clipboard, operation, selectedFiles, progress, ops,
                   lastOperationWasActive, progressHideTime,
                   bookmarks>>

\* handleContextMenu, case "Copy"
EvCopy(files) ==
    /\ uiPc = "idle"
    /\ Copy(files)
    /\ ClearSelection
    /\ DrawProgressBar(1)
    /\ UNCHANGED <<navigator, ret, fs, progress, ops, lastOperationWasActive, progressHideTime, bookmarks>>

\* handleContextMenu, case "Cut"
EvCut(files) ==
    /\ uiPc = "idle"
    /\ Cut(files)
    /\ ClearSelection
    /\ DrawProgressBar(1)
    /\ UNCHANGED <<navigator, ret, fs, progress, ops, lastOperationWasActive, progressHideTime, bookmarks>>

\* handleContextMenu, case "Paste": go func() { a.fileOpsManager.Paste(currentDir) ... }
EvPaste(currentDir) ==
    /\ uiPc = "idle"
    /\ HasClipboard
    /\ ops' = Append(ops, NewOp("paste", currentDir, <<>>))
    /\ DrawProgressBar(1)
    /\ UNCHANGED <<navigator, ret, fs, clipboard, operation, selectedFiles, progress,
                   lastOperationWasActive, progressHideTime,
                   bookmarks>>

\* handleContextMenu, case "Delete", confirmed: go func() { a.fileOpsManager.Delete(selectedFiles) ... }
EvDelete(files) ==
    /\ uiPc = "idle"
    /\ ops' = Append(ops, NewOp("delete", <<>>, files))
    /\ DrawProgressBar(1)
    /\ UNCHANGED <<navigator, ret, fs, clipboard, operation, selectedFiles, progress,
                   lastOperationWasActive, progressHideTime,
                   bookmarks>>

\* any other event of eventLoop: it changes nothing here and is followed by the drawing
EvOther ==
    /\ uiPc = "idle"
    /\ DrawProgressBar(1)
    /\ UNCHANGED <<navigator, ret, fs, clipboard, operation, selectedFiles, progress, ops,
                   lastOperationWasActive, progressHideTime,
                   bookmarks>>

\* updateProgressDisplay up to its decision to clear: the snapshot under RLock and the
\* hide timer; `after` is time.Now().After(a.progressHideTime), which can be true only for
\* a timer that an earlier call has set (it is set two seconds ahead)
UpdRead(after) ==
    /\ uiPc = "upd"
    /\ RLockFree
    /\ LET isActive == progress.Active
           hasData == progress.TotalFiles > 0
           wasOperationActive == lastOperationWasActive
           t1 == IF ~wasOperationActive /\ isActive THEN "zero" ELSE progressHideTime
           t2 == IF wasOperationActive /\ ~isActive /\ hasData /\ t1 = "zero"
                 THEN "new" ELSE t1
       IN  /\ lastOperationWasActive' = isActive
           /\ IF t2 = "set" /\ after
              THEN /\ progressHideTime' = "zero"
                   /\ uiPc' = "clear"
                   /\ Mu' = Mu
              ELSE /\ progressHideTime' = (IF t2 = "new" THEN "set" ELSE t2)
                   /\ DrawProgressBar(2)
    /\ UNCHANGED <<navigator, ret, fs, clipboard, operation, selectedFiles, progress, ops, bookmarks>>

\* updateProgressDisplay's clearing of the progress data, under Lock
UpdClear ==
    /\ uiPc = "clear"
    /\ LockFree
    /\ progress' = [progress EXCEPT !.TotalFiles = 0, !.ProcessedFiles = 0,
                                    !.TotalBytes = 0, !.ProcessedBytes = 0,
                                    !.CurrentFile = <<>>]
    /\ DrawProgressBar(2)
    /\ UNCHANGED <<navigator, ret, fs, clipboard, operation, selectedFiles, ops,
                   lastOperationWasActive, progressHideTime,
                   bookmarks>>

\* a step of goroutine i
OpStep(i) ==
    \/ PasteSize(i) \/ PasteStart(i) \/ PasteRange(i) \/ PasteProbe(i)
    \/ PasteBr1(i) \/ PasteBr2(i) \/ PasteCount(i)
    \/ PasteClear(i) \/ PasteClear2(i) \/ OpReturn(i)
    \/ CopyDir(i) \/ FileOpen(i) \/ FileChunk(i)
    \/ DeleteSize(i) \/ DeleteStart(i) \/ DeleteIter(i) \/ DeleteCount(i)

\* the user launches at most maxOps operations, and with overlap = FALSE waits for one
\* to return before launching the next
CanLaunch(maxOps, overlap) ==
    /\ Len(ops) < maxOps
    /\ overlap \/ \A i \in DOMAIN ops : ~Running(i)

\* a step of the input loop, for the user's choices among lists, dirs and deleted
UiStep(lists, dirs, deleted, maxOps, overlap) ==
    \/ \E files \in lists : EvCopy(files)
    \/ \E files \in lists : EvCut(files)
    \/ \E d \in dirs : CanLaunch(maxOps, overlap) /\ EvPaste(d)
    \/ \E files \in deleted : CanLaunch(maxOps, overlap) /\ EvDelete(files)
    \/ EvOther
    \/ \E k \in 1..2 : GetSpeed(k)
    \/ \E after \in BOOLEAN : UpdRead(after)
    \/ UpdClear

\* operations that overlap, on single files
Next ==
    \/ UiStep(StageLists, DestDirs, DeleteLists, MaxOps, TRUE)
    \/ \E i \in 1..MaxOps : OpStep(i) \/ LockWait(i)

Spec == Init /\ [][Next]_vars

\* operations that overlap, where the Delete is of a file and a directory
NextMixed ==
    \/ UiStep(StageLists, DestDirs, {<<P_f, P_d>>}, MaxOps, TRUE)
    \/ \E i \in 1..MaxOps : OpStep(i) \/ LockWait(i)

SpecMixed == Init /\ [][NextMixed]_vars

\* one operation at a time, on whole trees
NextTree ==
    \/ UiStep(TreeStageLists, TreeDestDirs, TreeDeleteLists, MaxTreeOps, FALSE)
    \/ \E i \in 1..MaxTreeOps : OpStep(i) \/ LockWait(i)

SpecTree == Init /\ [][NextTree]_vars

\* the input loop's steps between an event and the next PollEvent
UiRuns ==
    \/ \E k \in 1..2 : GetSpeed(k)
    \/ \E after \in BOOLEAN : UpdRead(after)
    \/ UpdClear

\* the steps of the goroutines; in NextTree at most one of them is running
OpRuns == \E i \in 1..MaxTreeOps : OpStep(i) \/ LockWait(i)

\* the same, where what can run does run: the Go scheduler runs a goroutine that is not
\* blocked, and the input loop goes on by itself from an event to the next PollEvent
FairTree == SpecTree /\ WF_vars(OpRuns) /\ WF_vars(UiRuns)

(***************************************************************************)
(* The Manager under a sequential caller, as the tests drive it: each call  *)
(* returns before the next one is made, and nothing reads ProgressInfo      *)
(* while a call runs.                                                      *)
(***************************************************************************)
P_w == <<N_w>>
P_df == <<N_d, N_f>>
P_w0 == <<N_w, N_0>>
P_d1txt == <<N_d, N_1txt>>

\* the tree the calls start on: a second file named f, a directory without search
\* permission that holds a file, and a directory without write permission that holds one
CallFs ==
    InitFs @@ (P_df :> FileNode(4, 7)) @@ (<<N_r, N_0>> :> FileNode(5, 1))
           @@ (P_w :> DirNode) @@ (P_w0 :> FileNode(6, 2))

CallStageLists == {<<P_f, P_d>>, <<P_f, P_df>>, <<P_df, P_f>>, <<P_d1txt>>}
CallDeleteLists == {<<P_d, P_f>>, <<P_f, P_w0>>, <<P_f, P_r>>}
CallDestDirs == {P_t, P_d, P_w}

InitCalls ==
    /\ fs = CallFs
    /\ clipboard = <<>>
    /\ operation = OpNone
    /\ selectedFiles = NoSelection
    /\ progress = NewProgress
    /\ ops = <<>>
    /\ uiPc = "idle"
    /\ lastOperationWasActive = FALSE
    /\ progressHideTime = "zero"
    /\ Mu = [readers |-> 0, waiting |-> {}]
    /\ navigator = [currentDir |-> <<>>]
    /\ ret = NoCall
    /\ bookmarks = <<>>

\* the caller is between two calls
Returned == \A i \in DOMAIN ops : ~Running(i)

\* manager.Copy(files)
CallCopy(files) ==
    /\ Returned
    /\ Copy(files)
    /\ UNCHANGED <<navigator, ret, fs, selectedFiles, progress, ops, uiPc, lastOperationWasActive,
                   progressHideTime, Mu,
                   bookmarks>>

\* manager.Cut(files)
CallCut(files) ==
    /\ Returned
    /\ Cut(files)
    /\ UNCHANGED <<navigator, ret, fs, selectedFiles, progress, ops, uiPc, lastOperationWasActive,
                   progressHideTime, Mu,
                   bookmarks>>

\* manager.Paste(destDir)
CallPaste(destDir) ==
    /\ Returned /\ Len(ops) < MaxCalls
    /\ ops' = Append(ops, NewOp("paste", destDir, <<>>))
    /\ UNCHANGED <<navigator, ret, fs, clipboard, operation, selectedFiles, progress, uiPc,
                   lastOperationWasActive, progressHideTime, Mu,
                   bookmarks>>

\* manager.Delete(files)
CallDelete(files) ==
    /\ Returned /\ Len(ops) < MaxCalls
    /\ ops' = Append(ops, NewOp("delete", <<>>, files))
    /\ UNCHANGED <<navigator, ret, fs, clipboard, operation, selectedFiles, progress, uiPc,
                   lastOperationWasActive, progressHideTime, Mu,
                   bookmarks>>

NextCalls ==
    \/ \E files \in CallStageLists : CallCopy(files)
    \/ \E files \in CallStageLists : CallCut(files)
    \/ \E d \in CallDestDirs : CallPaste(d)
    \/ \E files \in CallDeleteLists : CallDelete(files)
    \/ \E i \in 1..MaxCalls : OpStep(i)

SpecCalls == InitCalls /\ [][NextCalls]_vars

(***************************************************************************)
(* The Manager's single-shot methods under a sequential caller, as the     *)
(* unit tests call them.  ret records the call and what it returned.       *)
(***************************************************************************)
N_x == <<"x">>

\* the paths and names the caller passes: the root, a file, a directory, a file in it,
\* a file in a directory without write permission, a path that is not there; the empty
\* name, two names that are in use and one that is free
EditPaths == {<<>>, P_f, P_d, P_df, P_w0, <<N_d, N_x>>}
EditNames == {<<>>, N_f, N_0, N_x}

\* the record of a call that has returned
Called(call, args, err) == [call |-> call, args |-> args, err |-> err, n |-> ret.n + 1]

\* manager.Rename(oldPath, newName)
CallRename(oldPath, newName) ==
    /\ ret.n < MaxEdits
    /\ LET r == ManagerRename(fs, oldPath, newName)
       IN  /\ fs' = r.fs
           /\ ret' = Called("Rename", <<oldPath, newName>>, r.err)
    /\ UNCHANGED <<clipboard, operation, selectedFiles, progress, ops, uiPc,
                   lastOperationWasActive, progressHideTime, Mu, navigator,
                   bookmarks>>

\* manager.CreateFile(dir, filename)
CallCreateFile(dir, filename) ==
    /\ ret.n < MaxEdits
    /\ LET r == CreateFile(fs, dir, filename)
       IN  /\ fs' = r.fs
           /\ ret' = Called("CreateFile", <<dir, filename>>, r.err)
    /\ UNCHANGED <<clipboard, operation, selectedFiles, progress, ops, uiPc,
                   lastOperationWasActive, progressHideTime, Mu, navigator,
                   bookmarks>>

\* manager.CreateFolder(dir, foldername)
CallCreateFolder(dir, foldername) ==
    /\ ret.n < MaxEdits
    /\ LET r == CreateFolder(fs, dir, foldername)
       IN  /\ fs' = r.fs
           /\ ret' = Called("CreateFolder", <<dir, foldername>>, r.err)
    /\ UNCHANGED <<clipboard, operation, selectedFiles, progress, ops, uiPc,
                   lastOperationWasActive, progressHideTime, Mu, navigator,
                   bookmarks>>

\* manager.ToggleSelection(path)
CallToggleSelection(path) ==
    /\ ret.n < MaxEdits
    /\ selectedFiles' = ToggleSelection(selectedFiles, path)
    /\ ret' = Called("ToggleSelection", <<path>>, "nil")
    /\ UNCHANGED <<fs, clipboard, operation, progress, ops, uiPc,
                   lastOperationWasActive, progressHideTime, Mu, navigator,
                   bookmarks>>

\* manager.ClearSelection()
CallClearSelection ==
    /\ ret.n < MaxEdits
    /\ ClearSelection
    /\ ret' = Called("ClearSelection", <<>>, "nil")
    /\ UNCHANGED <<fs, clipboard, operation, progress, ops, uiPc,
                   lastOperationWasActive, progressHideTime, Mu, navigator,
                   bookmarks>>

\* manager.GetSelectedFiles(), with the list it returned
CallGetSelectedFiles ==
    /\ ret.n < MaxEdits
    /\ \E files \in GetSelectedFiles(selectedFiles) :
          ret' = Called("GetSelectedFiles", files, "nil")
    /\ UNCHANGED <<fs, clipboard, operation, selectedFiles, progress, ops, uiPc,
                   lastOperationWasActive, progressHideTime, Mu, navigator,
                   bookmarks>>

\* manager.Copy(files)
StageCopy(files) ==
    /\ ret.n < MaxEdits
    /\ Copy(files)
    /\ ret' = Called("Copy", files, "nil")
    /\ UNCHANGED <<fs, selectedFiles, progress, ops, uiPc,
                   lastOperationWasActive, progressHideTime, Mu, navigator,
                   bookmarks>>

\* manager.Cut(files)
StageCut(files) ==
    /\ ret.n < MaxEdits
    /\ Cut(files)
    /\ ret' = Called("Cut", files, "nil")
    /\ UNCHANGED <<fs, selectedFiles, progress, ops, uiPc,
                   lastOperationWasActive, progressHideTime, Mu, navigator,
                   bookmarks>>

NextEdit ==
    \/ \E oldPath \in EditPaths, newName \in EditNames : CallRename(oldPath, newName)
    \/ \E dir \in EditPaths, filename \in EditNames : CallCreateFile(dir, filename)
    \/ \E dir \in EditPaths, foldername \in EditNames : CallCreateFolder(dir, foldername)
    \/ \E path \in EditPaths : CallToggleSelection(path)
    \/ CallClearSelection
    \/ CallGetSelectedFiles
    \/ \E files \in CallStageLists : StageCopy(files)
    \/ \E files \in CallStageLists : StageCut(files)

SpecEdit == InitCalls /\ [][NextEdit]_vars

(***************************************************************************)
(* App: the browser.  The user moves between directories, marks entries    *)
(* with Space, and picks Cut, Paste, Delete and Rename from the context    *)
(* menu, one background operation at a time.  Copy is not picked here: no  *)
(* step of copyFileOrDirWithProgress runs, and the goroutine's steps are   *)
(* those of a Paste with Cut staged and of a Delete.  The cursor can stand *)
(* on any entry of the current directory, which the Navigator lists again  *)
(* after every change of directory.  ret counts the presses of Space and   *)
(* the renames.                                                            *)
(***************************************************************************)
\* Navigator.GetSelectedPath for each place of the cursor
CursorPaths ==
    LET fileList == ReadDir(fs, navigator.currentDir)
    IN  {Join(navigator.currentDir, fileList[i].name) : i \in DOMAIN fileList}

\* handleContextMenu's selectedFiles: the selection, or the entry under the cursor
MenuFiles ==
    IF GetSelectedCount(selectedFiles) = 0
    THEN {<<selectedPath>> : selectedPath \in CursorPaths}
    ELSE GetSelectedFiles(selectedFiles)

\* Navigator.GoToParent
GoToParent ==
    LET parent == Dir(navigator.currentDir)
    IN  [ok |-> parent # navigator.currentDir, currentDir |-> parent]

\* Navigator.EnterDirectory with the cursor on selectedPath
EnterDirectory(selectedPath) ==
    IF fs[selectedPath].isDir
    THEN [ok |-> TRUE, currentDir |-> selectedPath]
    ELSE [ok |-> FALSE, currentDir |-> navigator.currentDir]

\* Navigator.SetCurrentDir
SetCurrentDir(dir) == navigator' = [navigator EXCEPT !.currentDir = dir]

\* handleKeyEvent, case KeySpace
EvSpace(selectedPath) ==
    /\ uiPc = "idle"
    /\ ret.n < MaxNavEdits
    /\ selectedPath \in CursorPaths
    /\ selectedFiles' = ToggleSelection(selectedFiles, selectedPath)
    /\ ret' = Called("ToggleSelection", <<selectedPath>>, "nil")
    /\ DrawProgressBar(1)
    /\ UNCHANGED <<navigator, fs, clipboard, operation, progress, ops,
                   lastOperationWasActive, progressHideTime,
                   bookmarks>>

\* handleKeyEvent, case KeyArrowLeft
EvArrowLeft ==
    /\ uiPc = "idle"
    /\ LET r == GoToParent
       IN  /\ SetCurrentDir(r.currentDir)
           /\ IF r.ok THEN ClearSelection ELSE selectedFiles' = selectedFiles
    /\ DrawProgressBar(1)
    /\ UNCHANGED <<ret, fs, clipboard, operation, progress, ops,
                   lastOperationWasActive, progressHideTime,
                   bookmarks>>

\* handleKeyEvent, case KeyArrowRight
EvArrowRight(selectedPath) ==
    /\ uiPc = "idle"
    /\ selectedPath \in CursorPaths
    /\ LET r == EnterDirectory(selectedPath)
       IN  /\ SetCurrentDir(r.currentDir)
           /\ IF r.ok THEN ClearSelection ELSE selectedFiles' = selectedFiles
    /\ DrawProgressBar(1)
    /\ UNCHANGED <<ret, fs, clipboard, operation, progress, ops,
                   lastOperationWasActive, progressHideTime,
                   bookmarks>>

\* handleMiddlePanelClick with isDoubleClick: os.Stat, then EnterDirectory
EvMiddlePanelClick(selectedPath) ==
    /\ uiPc = "idle"
    /\ selectedPath \in CursorPaths
    /\ LET r == EnterDirectory(selectedPath)
           entered == Stat(fs, selectedPath) = "ok" /\ r.ok
       IN  /\ SetCurrentDir(IF entered THEN r.currentDir ELSE navigator.currentDir)
           /\ IF entered THEN ClearSelection ELSE selectedFiles' = selectedFiles
    /\ DrawProgressBar(1)
    /\ UNCHANGED <<ret, fs, clipboard, operation, progress, ops,
                   lastOperationWasActive, progressHideTime,
                   bookmarks>>

\* handleParentPanelClick with isDoubleClick
EvParentPanelClick ==
    /\ uiPc = "idle"
    /\ LET r == GoToParent
       IN  /\ SetCurrentDir(r.currentDir)
           /\ IF r.ok THEN ClearSelection ELSE selectedFiles' = selectedFiles
    /\ DrawProgressBar(1)
    /\ UNCHANGED <<ret, fs, clipboard, operation, progress, ops,
                   lastOperationWasActive, progressHideTime,
                   bookmarks>>

\* handlePathEditMode, case KeyEnter, with newPath typed into the buffer
EvPathEdit(newPath) ==
    /\ uiPc = "idle"
    /\ SetCurrentDir(IF Stat(fs, newPath) = "ok" /\ fs[newPath].isDir
                     THEN newPath ELSE navigator.currentDir)
    /\ DrawProgressBar(1)
    /\ UNCHANGED <<ret, fs, clipboard, operation, selectedFiles, progress, ops,
                   lastOperationWasActive, progressHideTime,
                   bookmarks>>

\* handleKeyEvent, case keys.BookmarkPopup, with the bookmark of path chosen
EvBookmark(path) ==
    /\ uiPc = "idle"
    /\ SetCurrentDir(IF Stat(fs, path) = "ok" /\ fs[path].isDir
                     THEN path ELSE navigator.currentDir)
    /\ DrawProgressBar(1)
    /\ UNCHANGED <<ret, fs, clipboard, operation, selectedFiles, progress, ops,
                   lastOperationWasActive, progressHideTime,
                   bookmarks>>

\* handleContextMenu, case "Rename", with newName typed at the prompt
EvRename(oldPath, newName) ==
    /\ uiPc = "idle"
    /\ ret.n < MaxNavEdits
    /\ <<oldPath>> \in MenuFiles
    /\ newName # <<>> /\ newName # Base(oldPath)
    /\ LET r == ManagerRename(fs, oldPath, newName)
       IN  /\ fs' = r.fs
           /\ ret' = Called("Rename", <<oldPath, newName>>, r.err)
    /\ DrawProgressBar(1)
    /\ UNCHANGED <<navigator, clipboard, operation, selectedFiles, progress, ops,
                   lastOperationWasActive, progressHideTime,
                   bookmarks>>

\* the tree the browser is started on, in its root
NavFs ==
    (<<>> :> DirNode) @@ (P_d :> DirNode) @@ (P_f :> FileNode(3, 20))

InitNav ==
    /\ fs = NavFs
    /\ clipboard = <<>>
    /\ operation = OpNone
    /\ selectedFiles = NoSelection
    /\ progress = NewProgress
    /\ ops = <<>>
    /\ uiPc = "idle"
    /\ lastOperationWasActive = FALSE
    /\ progressHideTime = "zero"
    /\ Mu = [readers |-> 0, waiting |-> {}]
    /\ navigator = [currentDir |-> <<>>]
    /\ ret = NoCall
    /\ bookmarks = <<>>

\* the user types or has bookmarked a directory or a file, and types a free name
NextNav ==
    \/ \E selectedPath \in CursorPaths :
          \/ EvSpace(selectedPath)
          \/ EvArrowRight(selectedPath)
          \/ EvMiddlePanelClick(selectedPath)
    \/ EvArrowLeft
    \/ EvParentPanelClick
    \/ \E newPath \in {P_d, P_f} : EvPathEdit(newPath)
    \/ \E path \in {P_d, P_f} : EvBookmark(path)
    \/ \E files \in MenuFiles :
          \/ EvCut(files)
          \/ CanLaunch(MaxNavOps, FALSE) /\ EvDelete(files)
          \/ \E newName \in {N_x} : EvRename(files[1], newName)
    \/ CanLaunch(MaxNavOps, FALSE) /\ EvPaste(navigator.currentDir)
    \/ EvOther
    \/ \E k \in 1..2 : GetSpeed(k)
    \/ \E after \in BOOLEAN : UpdRead(after)
    \/ UpdClear
    \/ \E i \in 1..MaxNavOps :
          \/ PasteSize(i) \/ PasteStart(i) \/ PasteRange(i) \/ PasteProbe(i)
          \/ PasteBr1(i) \/ PasteBr2(i) \/ PasteCount(i)
          \/ PasteClear(i) \/ PasteClear2(i) \/ OpReturn(i)
          \/ DeleteSize(i) \/ DeleteStart(i) \/ DeleteIter(i) \/ DeleteCount(i)
          \/ LockWait(i)

SpecNav == InitNav /\ [][NextNav]_vars

(***************************************************************************)
(* Navigator: the listing.  In the runs of SpecList the record navigator   *)
(* holds, besides currentDir, the fields fileList, cursor, scrollOffset,   *)
(* filter, showHidden and sortReverse, and panic, which is set when the    *)
(* Go runtime stops the process at an index out of range.  cursor and      *)
(* scrollOffset count from 0 as in the code, fileList[k + 1] is the code's *)
(* n.fileList[k].  The sort mode stays SortByName, which the user can only *)
(* reverse; all names are lower case, so strings.ToLower changes nothing.  *)
(***************************************************************************)
\* strings.Contains(name, filter)
Contains(name, filter) ==
    \E k \in 0..(Len(name) - Len(filter)) : SubSeq(name, k + 1, k + Len(filter)) = filter

\* strings.HasPrefix(name, ".")
IsHidden(name) == name # <<>> /\ name[1] = "."

\* the elements of a sequence in the opposite order
Reverse(s) == [i \in 1..Len(s) |-> s[Len(s) + 1 - i]]

\* sortFileList, case SortByName, of entries that ioutil.ReadDir has handed over sorted by
\* name: directories first, each kind by name, or with sortReverse by the negated
\* comparison, which is the opposite order since no two entries share a name
sortFileList(files, sortReverse) ==
    LET IsDir(e) == e.isDir
        IsFile(e) == ~e.isDir
        dirs == SelectSeq(files, IsDir)
        others == SelectSeq(files, IsFile)
    IN  IF sortReverse THEN Reverse(dirs) \o Reverse(others) ELSE dirs \o others

\* RefreshFileList's loop and sort: the list it builds from the directory as it is now
ListOf(f, n) ==
    LET Kept(e) == /\ n.showHidden \/ ~IsHidden(e.name)
                   /\ n.filter = <<>> \/ Contains(e.name, n.filter)
    IN  sortFileList(SelectSeq(ReadDir(f, n.currentDir), Kept), n.sortReverse)

\* ioutil.ReadDir(n.currentDir) returns an error
ReadDirFails(f, dir) == Stat(f, dir) # "ok" \/ ~f[dir].isDir

\* RefreshFileList's last statement: the cursor goes back to 0 when it is out of bounds
AdjustCursor(n) == IF n.cursor >= Len(n.fileList) THEN [n EXCEPT !.cursor = 0] ELSE n

\* Navigator.RefreshFileList, run by the input loop
RefreshFileList(f, n) ==
    IF ReadDirFails(f, n.currentDir) THEN [n EXCEPT !.fileList = <<>>]
    ELSE AdjustCursor([n EXCEPT !.fileList = ListOf(f, n)])

\* Navigator.SetCursor
SetCursor(n, pos) ==
    IF pos >= 0 /\ pos < Len(n.fileList) THEN [n EXCEPT !.cursor = pos] ELSE n

\* App.getFileIndexAtY for a click on line relativeY of the file panel
getFileIndexAtY(n, relativeY) ==
    IF n.scrollOffset + relativeY >= Len(n.fileList) THEN -1
    ELSE n.scrollOffset + relativeY

\* Navigator.SetFilter
SetFilter(f, n, filter) == RefreshFileList(f, [n EXCEPT !.filter = filter, !.cursor = 0])

\* Navigator.MoveCursorToBestMatch
MoveCursorToBestMatch(n, visibleLines) ==
    IF Len(n.fileList) = 0 THEN [n EXCEPT !.cursor = 0, !.scrollOffset = 0]
    ELSE LET matches == {i \in DOMAIN n.fileList : Contains(n.fileList[i].name, n.filter)}
             c == IF matches = {} THEN 0
                  ELSE (CHOOSE i \in matches : \A j \in matches : i <= j) - 1
         IN  [n EXCEPT !.cursor = c,
                       !.scrollOffset = IF c >= @ + visibleLines THEN c - visibleLines + 1
                                        ELSE IF c < @ THEN c ELSE @]

\* Navigator.ClearFilter
ClearFilter(n) == [n EXCEPT !.filter = <<>>, !.cursor = 0, !.scrollOffset = 0]

\* Navigator.ToggleHidden
ToggleHidden(f, n) == RefreshFileList(f, [n EXCEPT !.showHidden = ~@, !.cursor = 0])

\* Navigator.SetSortMode(SortByName) while the mode is SortByName
SetSortMode(f, n) == RefreshFileList(f, [n EXCEPT !.sortReverse = ~@])

\* Navigator.MoveUp
MoveUp(n, visibleLines) ==
    IF n.cursor > 0
    THEN [n EXCEPT !.cursor = @ - 1,
                   !.scrollOffset = IF n.cursor - 1 < @ THEN @ - 1 ELSE @]
    ELSE IF Len(n.fileList) > 0
    THEN LET last == Len(n.fileList) - 1
         IN  [n EXCEPT !.cursor = last,
                       !.scrollOffset = IF last - visibleLines + 1 > 0
                                        THEN last - visibleLines + 1 ELSE 0]
    ELSE n

\* Navigator.MoveDown
MoveDown(n, visibleLines) ==
    IF n.cursor < Len(n.fileList) - 1
    THEN [n EXCEPT !.cursor = @ + 1,
                   !.scrollOffset = IF n.cursor + 1 >= @ + visibleLines THEN @ + 1 ELSE @]
    ELSE IF Len(n.fileList) > 0
    THEN [n EXCEPT !.cursor = 0, !.scrollOffset = 0]
    ELSE n

\* Navigator.MoveUpFast
MoveUpFast(n, visibleLines) ==
    IF Len(n.fileList) = 0 THEN n
    ELSE LET c == IF n.cursor - 5 < 0 THEN 0 ELSE n.cursor - 5
         IN  [n EXCEPT !.cursor = c, !.scrollOffset = IF c < @ THEN c ELSE @]

\* Navigator.MoveDownFast
MoveDownFast(n, visibleLines) ==
    IF Len(n.fileList) = 0 THEN n
    ELSE LET c == IF n.cursor + 5 >= Len(n.fileList)
                  THEN Len(n.fileList) - 1 ELSE n.cursor + 5
         IN  [n EXCEPT !.cursor = c,
                       !.scrollOffset = IF c >= @ + visibleLines
                                        THEN c - visibleLines + 1 ELSE @]

\* Navigator.SetCurrentDir with all it does
NavSetCurrentDir(f, n, dir) ==
    RefreshFileList(f, [n EXCEPT !.currentDir = dir, !.cursor = 0, !.scrollOffset = 0])

\* Navigator.GoToParent with all it does
NavGoToParent(f, n) ==
    LET parent == Dir(n.currentDir)
    IN  IF parent # n.currentDir
        THEN RefreshFileList(f, ClearFilter([n EXCEPT !.currentDir = parent]))
        ELSE n

\* Navigator.EnterDirectory with all it does: n.fileList[n.cursor] is read without a
\* look at the cursor, and an index out of range stops the process
NavEnterDirectory(f, n) ==
    IF Len(n.fileList) > 0
    THEN IF n.cursor >= Len(n.fileList) THEN [n EXCEPT !.panic = TRUE]
         ELSE LET selected == n.fileList[n.cursor + 1]
              IN  IF selected.isDir
                  THEN RefreshFileList(f, ClearFilter(
                           [n EXCEPT !.currentDir = Join(n.currentDir, selected.name)]))
                  ELSE n
    ELSE n

\* Navigator.GetSelectedPath in the listing
NavSelectedPath(n) ==
    IF Len(n.fileList) > 0 /\ n.cursor < Len(n.fileList)
    THEN <<Join(n.currentDir, n.fileList[n.cursor + 1].name)>>
    ELSE <<>>

(***************************************************************************)
(* App: the listing under the input loop and the goroutine of a Delete,    *)
(* which calls a.navigator.Refresh() when Delete has returned.  The user   *)
(* moves the cursor, filters, shows hidden entries, reverses the sort,     *)
(* clicks, changes directory and deletes the entry under the cursor.       *)
(***************************************************************************)
N_h == <<".", "0">>

\* the tree the listing is of: five entries and a hidden one in the root, two in /d
ListFs ==
    (<<>> :> DirNode) @@ (P_d :> DirNode)
    @@ (<<N_d, N_0>> :> FileNode(1, 10)) @@ (<<N_d, N_1txt>> :> FileNode(2, 30))
    @@ (<<N_0>> :> FileNode(1, 10)) @@ (P_f :> FileNode(3, 20))
    @@ (P_r :> FileNode(4, 5)) @@ (P_t :> FileNode(5, 5))
    @@ (<<N_h>> :> FileNode(7, 5))

\* NewNavigator
NewNavigator(f) ==
    RefreshFileList(f, [currentDir |-> <<>>, fileList |-> <<>>, cursor |-> 0,
                        scrollOffset |-> 0, filter |-> <<>>, showHidden |-> FALSE,
                        sortReverse |-> FALSE, panic |-> FALSE])

InitList ==
    /\ fs = ListFs
    /\ clipboard = <<>>
    /\ operation = OpNone
    /\ selectedFiles = NoSelection
    /\ progress = NewProgress
    /\ ops = <<>>
    /\ uiPc = "idle"
    /\ lastOperationWasActive = FALSE
    /\ progressHideTime = "zero"
    /\ Mu = [readers |-> 0, waiting |-> {}]
    /\ navigator = NewNavigator(ListFs)
    /\ ret = NoCall
    /\ bookmarks = <<>>

\* an event of the input loop whose handler leaves the Navigator as n, followed by the
\* drawing; after a panic nothing runs any more
ListEv(n) ==
    /\ uiPc = "idle"
    /\ ~navigator.panic
    /\ navigator' = n
    /\ DrawProgressBar(1)
    /\ UNCHANGED <<ret, fs, clipboard, operation, selectedFiles, progress, ops,
                   lastOperationWasActive, progressHideTime,
                   bookmarks>>

\* handleKeyEvent, case keys.Filter: Renderer.Prompt with `filter` typed and Enter (its
\* last round of SetFilter and MoveCursorToBestMatch is on that input), then SetFilter
ListFilter(filter) ==
    ListEv(SetFilter(fs, MoveCursorToBestMatch(SetFilter(fs, navigator, filter),
                                               VisibleLines), filter))

\* handlePathEditMode, case KeyEnter, in the listing
ListPathEdit(newPath) ==
    ListEv(IF Stat(fs, newPath) = "ok" /\ fs[newPath].isDir
           THEN NavSetCurrentDir(fs, navigator, newPath) ELSE navigator)

\* handleContextMenu, case "Delete", confirmed, of the entry under the cursor
ListDelete ==
    /\ ~navigator.panic
    /\ NavSelectedPath(navigator) # <<>>
    /\ CanLaunch(MaxNavOps, FALSE)
    /\ EvDelete(NavSelectedPath(navigator))

\* the goroutine after Delete has returned: RefreshFileList up to `n.fileList = nil`
GoReadDir(i) ==
    /\ i \in DOMAIN ops /\ ops[i].pc = "done"
    /\ ~navigator.panic
    /\ navigator' = [navigator EXCEPT !.fileList = <<>>]
    /\ ops' = [ops EXCEPT ![i] = [@ EXCEPT !.pc = IF ReadDirFails(fs, navigator.currentDir)
                                                 THEN "shown" ELSE "list"]]
    /\ UNCHANGED <<ret, fs, clipboard, operation, selectedFiles, progress, uiPc,
                   lastOperationWasActive, progressHideTime, Mu,
                   bookmarks>>

\* the goroutine: RefreshFileList's loop and sort have filled n.fileList
GoList(i) ==
    /\ i \in DOMAIN ops /\ ops[i].pc = "list"
    /\ ~navigator.panic
    /\ navigator' = [navigator EXCEPT !.fileList = ListOf(fs, navigator)]
    /\ ops' = [ops EXCEPT ![i] = [@ EXCEPT !.pc = "cursor"]]
    /\ UNCHANGED <<ret, fs, clipboard, operation, selectedFiles, progress, uiPc,
                   lastOperationWasActive, progressHideTime, Mu,
                   bookmarks>>

\* the goroutine: RefreshFileList's adjustment of the cursor, then the redraw
GoCursor(i) ==
    /\ i \in DOMAIN ops /\ ops[i].pc = "cursor"
    /\ ~navigator.panic
    /\ navigator' = AdjustCursor(navigator)
    /\ ops' = [ops EXCEPT ![i] = [@ EXCEPT !.pc = "shown"]]
    /\ UNCHANGED <<ret, fs, clipboard, operation, selectedFiles, progress, uiPc,
                   lastOperationWasActive, progressHideTime, Mu,
                   bookmarks>>

NextList ==
    \/ ListEv(MoveUp(navigator, VisibleLines))
    \/ ListEv(MoveDown(navigator, VisibleLines))
    \/ ListEv(MoveUpFast(navigator, VisibleLines))
    \/ ListEv(MoveDownFast(navigator, VisibleLines))
    \/ \E filter \in {<<>>, N_t, N_x} : ListFilter(filter)
    \/ ListEv(ToggleHidden(fs, navigator))
    \/ ListEv(SetSortMode(fs, navigator))
    \/ \E relativeY \in 0..(VisibleLines - 1) :
          ListEv(SetCursor(navigator, getFileIndexAtY(navigator, relativeY)))
    \/ ListEv(NavEnterDirectory(fs, navigator))
    \/ ListEv(NavGoToParent(fs, navigator))
    \/ \E newPath \in {<<>>, P_d, P_f} : ListPathEdit(newPath)
    \/ ListDelete
    \/ ~navigator.panic /\ \E k \in 1..2 : GetSpeed(k)
    \/ ~navigator.panic /\ \E after \in BOOLEAN : UpdRead(after)
    \/ ~navigator.panic /\ UpdClear
    \/ \E i \in 1..MaxNavOps :
          /\ ~navigator.panic
          /\ \/ DeleteSize(i) \/ DeleteStart(i) \/ DeleteIter(i) \/ DeleteCount(i)
             \/ OpReturn(i) \/ LockWait(i)
    \/ \E i \in 1..MaxNavOps : GoReadDir(i) \/ GoList(i) \/ GoCursor(i)

SpecList == InitList /\ [][NextList]_vars

(***************************************************************************)
(* bookmark.Manager.  A path string is the sequence of its elements between *)
(* separators, the leading separator left out: "/d/" is <<N_d, <<>> >>, and *)
(* "/d/./0" is <<N_d, Dot, N_0>>.  All paths are rooted, as the current     *)
(* directory the application passes is.                                    *)
(***************************************************************************)
Dot == <<".">>
DotDot == <<".", ".">>

\* path with a separator appended
Slash(path) == Append(path, <<>>)

\* filepath.Clean of a rooted path: empty and "." elements go, ".." takes the element
\* before it with it and goes alone at the root
RECURSIVE CleanFrom(_, _)
CleanFrom(path, out) ==
    IF path = <<>> THEN out
    ELSE LET e == Head(path)
         IN  CleanFrom(Tail(path),
                 IF e = <<>> \/ e = Dot THEN out
                 ELSE IF e = DotDot THEN Dir(out)
                 ELSE Append(out, e))

CleanKeepsSeparator(path) ==
    IF path # <<>> /\ path[Len(path)] = <<>>
    THEN Slash(CleanFrom(path, <<>>))
    ELSE CleanFrom(path, <<>>)

Clean(path) == CleanFrom(path, <<>>)

\* the indices (from 1) of the bookmarks whose cleaned path is cleanPath
Hits(bm, cleanPath) == {i \in 1..Len(bm) : Clean(bm[i].Path) = cleanPath}
First(S) == CHOOSE i \in S : \A j \in S : i <= j

\* append(m.bookmarks[:i], m.bookmarks[i+1:]...), i from 1
RemoveAt(bm, i) == SubSeq(bm, 1, i - 1) \o SubSeq(bm, i + 1, Len(bm))

IsBookmarked(bm, path) == Hits(bm, Clean(path)) # {}

\* Toggle: the list it leaves and what it returns; the root's name is the empty name here
Toggle(bm, path) ==
    LET cleanPath == Clean(path)
    IN  IF Hits(bm, cleanPath) # {}
        THEN [bookmarks |-> RemoveAt(bm, First(Hits(bm, cleanPath))), added |-> FALSE]
        ELSE [bookmarks |-> Append(bm, [Name |-> Base(cleanPath), Path |-> cleanPath]),
              added |-> TRUE]

\* Remove(index), index from 0
Remove(bm, index) ==
    IF index >= 0 /\ index < Len(bm) THEN RemoveAt(bm, index + 1) ELSE bm

RemoveByPath(bm, path) ==
    LET cleanPath == Clean(path)
    IN  IF Hits(bm, cleanPath) # {}
        THEN [bookmarks |-> RemoveAt(bm, First(Hits(bm, cleanPath))), removed |-> TRUE]
        ELSE [bookmarks |-> bm, removed |-> FALSE]

Count(bm) == Len(bm)

\* the paths the caller passes: the root, /d, /d/, /d/0, /d/./0, /f, /f/, /d/../f, //f
BookPaths ==
    {<<>>, P_d, Slash(P_d), <<N_d, N_0>>, <<N_d, Dot, N_0>>, P_f, Slash(P_f),
     <<N_d, DotDot, N_f>>, <<<<>>, N_f>>}

BookCalled(call, args, value) ==
    [call |-> call, args |-> args, value |-> value, n |-> ret.n + 1]

\* one call on the Manager leaving the list as bm and returning value
BookCall(call, args, bm, value) ==
    /\ ret.n < MaxBookCalls
    /\ bookmarks' = bm
    /\ ret' = BookCalled(call, args, value)
    /\ UNCHANGED <<fs, clipboard, operation, selectedFiles, progress, ops, uiPc,
                   lastOperationWasActive, progressHideTime, Mu, navigator>>

CallToggle(path) ==
    BookCall("Toggle", <<path>>, Toggle(bookmarks, path).bookmarks,
             Toggle(bookmarks, path).added)

CallIsBookmarked(path) ==
    BookCall("IsBookmarked", <<path>>, bookmarks, IsBookmarked(bookmarks, path))

CallRemove(index) == BookCall("Remove", <<index>>, Remove(bookmarks, index), TRUE)

CallRemoveByPath(path) ==
    BookCall("RemoveByPath", <<path>>, RemoveByPath(bookmarks, path).bookmarks,
             RemoveByPath(bookmarks, path).removed)

CallCount == BookCall("Count", <<>>, bookmarks, Count(bookmarks))

NextBook ==
    \/ \E path \in BookPaths : CallToggle(path)
    \/ \E path \in BookPaths : CallIsBookmarked(path)
    \/ \E index \in 0..2 : CallRemove(index)
    \/ \E path \in BookPaths : CallRemoveByPath(path)
    \/ CallCount

SpecBook == Init /\ [][NextBook]_vars

(***************************************************************************)
(* Properties.                                                             *)
(***************************************************************************)
\* goroutine i is between its startProgress and its finishProgress
InProgress(o) == o.started /\ o.pc # "done"

\* C1: whenever ProgressInfo can be read, ProcessedBytes <= TotalBytes and
\* ProcessedFiles <= TotalFiles
C1_ProcessedWithinTotal ==
    /\ progress.ProcessedBytes <= progress.TotalBytes
    /\ progress.ProcessedFiles <= progress.TotalFiles

\* C1: an operation is running while the counters exceed the totals
C1_Exceeds ==
    /\ \E i \in DOMAIN ops : InProgress(ops[i])
    /\ progress.ProcessedBytes > progress.TotalBytes

\* what Paste does with a path under a staged operation kind
HowFor(op) == IF op = OpCopy THEN "copy" ELSE IF op = OpCut THEN "move" ELSE "skip"

\* C2: a running Paste handles the paths that were staged when it began, in their order,
\* by the kind that was staged then, and clears the clipboard at its end exactly when that
\* kind was Cut
C2_ActsOnStaged ==
    \A i \in DOMAIN ops :
        LET o == ops[i]
        IN  o.kind = "paste" =>
                /\ \A k \in DOMAIN o.acts :
                       /\ k <= Len(o.staged)
                       /\ o.acts[k].src = o.staged[k]
                       /\ o.acts[k].how = HowFor(o.stagedOp)
                /\ o.cleared => o.stagedOp = OpCut
                /\ (o.pc = "return" /\ ~o.err /\ o.stagedOp = OpCut) => o.cleared

\* C2: a Paste that began with Copy staged has moved a path
C2_MovedUnderCopy ==
    \E i \in DOMAIN ops :
        /\ ops[i].stagedOp = OpCopy
        /\ \E k \in DOMAIN ops[i].acts : ops[i].acts[k].how = "move"

\* C3: a clipboard that is not empty has the tag Copy or Cut
C3_ClipboardTagged == Len(clipboard) > 0 => operation \in {OpCopy, OpCut}

\* C3: the clipboard holds paths under the tag None
C3_UntaggedClipboard == Len(clipboard) > 0 /\ operation = OpNone

\* C4: while an operation is between startProgress and finishProgress, no step lowers
\* ProcessedBytes
C4_ProcessedBytesMonotone ==
    [][(\E i \in DOMAIN ops : InProgress(ops[i]) /\ InProgress(ops'[i]))
          => progress'.ProcessedBytes >= progress.ProcessedBytes]_vars

\* C4: an operation in progress whose own count of bytes is ahead of the published one
C4_PublishedBehind ==
    \E i \in DOMAIN ops :
        /\ InProgress(ops[i]) /\ ops[i].pc \in {"chunk", "count"}
        /\ progress.ProcessedBytes < ops[i].processedBytes

\* C5: ProgressInfo starts inactive; the step by which a Paste or Delete leaves sizing
\* sets Active with both processed counters at 0, and no path is handled before that
\* step; the step by which the operation returns leaves Active false
C5_Lifecycle ==
    /\ ~progress.Active
    /\ [][\A i \in DOMAIN ops :
             /\ (ops[i].pc \in {"start", "dstart"} /\ ops'[i].pc # ops[i].pc)
                    => /\ progress'.Active
                       /\ progress'.ProcessedBytes = 0
                       /\ progress'.ProcessedFiles = 0
             /\ ops'[i].acts # ops[i].acts => ops[i].started
             /\ (ops[i].started /\ ops[i].pc # "done" /\ ops'[i].pc = "done")
                    => ~progress'.Active]_vars

\* C5: an operation that passed sizing has returned, a second one has just started
C5_Restarted ==
    /\ \E i \in DOMAIN ops : ops[i].pc = "done" /\ ~ops[i].err
    /\ \E i \in DOMAIN ops : ops[i].pc \in {"range", "diter"}
    /\ progress.Active /\ progress.ProcessedBytes = 0 /\ progress.ProcessedFiles = 0

\* C6: every Paste or Delete that was launched returns, unless it waits for the lock
\* (C7 is about that wait)
C6_Terminates ==
    \A i \in 1..MaxTreeOps :
        (i \in DOMAIN ops) ~> (i \in DOMAIN ops /\ (ops[i].pc = "done" \/ i \in Mu.waiting))

\* C6: getUniqueDestPath's counter has wrapped around
C6_ProbeWrapped == \E i \in DOMAIN ops : ops[i].pc = "probe" /\ ops[i].counter < 0

\* C7: a writer that waits for the lock gets it, and the input loop, once inside
\* DrawProgressBar's read lock, comes back to PollEvent
C7_LockGranted ==
    /\ \A i \in 1..MaxTreeOps : (i \in Mu.waiting) ~> (i \notin Mu.waiting)
    /\ (uiPc \in {"speed1", "speed2"}) ~> (uiPc = "idle")

\* C7: a goroutine waits for the write lock, the input loop for the read lock, and
\* nothing can run
C7_Deadlocked ==
    /\ Mu.waiting # {}
    /\ uiPc \in {"speed1", "speed2"}
    /\ ~ENABLED NextTree

\* C8: at most one Paste or Delete is between its launch and its return
C8_OneInFlight == Cardinality({i \in DOMAIN ops : Running(i)}) <= 1

\* C8: two operations have both started their progress and neither has returned
C8_TwoInProgress == Cardinality({i \in DOMAIN ops : InProgress(ops[i])}) = 2

\* a Paste that began with Copy staged has copied every staged path and is about to
\* return without an error
CopyPasteSucceeds(o) ==
    /\ o.kind = "paste" /\ o.stagedOp = OpCopy
    /\ o.pc = "return" /\ ~o.err
    /\ o.acts = [k \in DOMAIN o.staged |-> [src |-> o.staged[k], how |-> "copy"]]

\* C9: the step by which a successful Copy-Paste returns leaves TotalBytes and
\* ProcessedBytes at the staged paths' bytes, ProcessedFiles at the number of files they
\* hold, and Active false
C9_CopyTotals ==
    [][\A i \in DOMAIN ops :
          (CopyPasteSucceeds(ops[i]) /\ ops'[i].pc = "done")
              => /\ progress'.TotalBytes = ops[i].totalSize
                 /\ progress'.ProcessedBytes = ops[i].totalSize
                 /\ progress'.ProcessedFiles = ops[i].stagedFiles
                 /\ ~progress'.Active]_vars

\* C9: a Copy-Paste of a file and a directory of two files is about to return without an
\* error, with every byte counted and two files counted
C9_CountsPaths ==
    \E i \in DOMAIN ops :
        /\ CopyPasteSucceeds(ops[i])
        /\ ops[i].stagedFiles = 3
        /\ progress.ProcessedBytes = ops[i].totalSize
        /\ progress.TotalBytes = ops[i].totalSize
        /\ progress.ProcessedFiles = 2

\* C10: the step of a Cut-Paste that renames a path adds that path's size, as sizing
\* saw it, to the count of processed bytes
C10_CutAddsSize ==
    [][\A i \in DOMAIN ops :
          (ops[i].pc = "br2" /\ ops'[i].pc = "count" /\ fs' # fs)
              => ops'[i].processedBytes
                     = ops[i].processedBytes + getPathSize(fs, ops[i].srcPath).size]_vars

\* C10: a Cut-Paste has renamed a file that is not empty and its count of processed bytes
\* is still 0
C10_MovedUncounted ==
    \E i \in DOMAIN ops :
        /\ ops[i].pc = "count" /\ ops[i].processedBytes = 0
        /\ \E k \in DOMAIN ops[i].acts : ops[i].acts[k].how = "move"
        /\ \E q \in DOMAIN fs : ~fs[q].isDir /\ fs[q].size > 0 /\ Base(q) = Base(ops[i].srcPath)
                                 /\ Dir(q) = ops[i].destDir

\* a Paste is about to return without an error
PasteSucceeds(o) == o.kind = "paste" /\ o.pc = "return" /\ ~o.err

\* C11: when a Paste that was called with Cut staged returns without an error, the
\* clipboard is empty and the tag is None; when one that was called with Copy staged
\* returns without an error, the clipboard and the tag are what they were at the call
C11_ClipboardAfterPaste ==
    \A i \in DOMAIN ops :
        PasteSucceeds(ops[i]) =>
            /\ ops[i].stagedOp = OpCut =>
                    clipboard = <<>> /\ operation = OpNone /\ ~HasClipboard
            /\ ops[i].stagedOp = OpCopy =>
                    clipboard = ops[i].staged /\ operation = OpCopy /\ HasClipboard

\* C11: a Copy-Paste has returned, the caller has staged the paths again with Cut, and
\* that Paste is about to return with the clipboard cleared
C11_ClearedAfterCut ==
    /\ Len(ops) = 2 /\ ops[1].pc = "done" /\ ~ops[1].err
    /\ PasteSucceeds(ops[2]) /\ ops[2].stagedOp = OpCut /\ Len(ops[2].acts) = 2
    /\ ~HasClipboard

\* C12: the first step of a Paste that finds the clipboard empty is its return with an
\* error, and leaves the filesystem and every field of ProgressInfo as they were
C12_EmptyClipboardError ==
    [][\A i \in DOMAIN ops :
          (ops[i].kind = "paste" /\ ops[i].pc = "check" /\ Len(clipboard) = 0
               /\ ops'[i] # ops[i])
              => /\ ops'[i].pc = "done" /\ ops'[i].err
                 /\ fs' = fs
                 /\ progress' = progress]_vars

\* C12: after an operation on two paths has returned, a Paste called with the clipboard
\* empty has returned an error and ProgressInfo still shows the first one's counts
C12_RefusedAfterCut ==
    /\ Len(ops) = 2 /\ ops[1].pc = "done" /\ ~ops[1].err
    /\ ops[2].kind = "paste" /\ ops[2].pc = "done" /\ ops[2].err
    /\ clipboard = <<>>
    /\ progress.ProcessedFiles = 2 /\ progress.TotalBytes > 0 /\ ~progress.Active

\* a path of the list cannot be stat-ed, or is a directory with an entry below it that
\* cannot be
Unreadable(f, files) ==
    \E k \in DOMAIN files :
        \/ Stat(f, files[k]) # "ok"
        \/ \E q \in Under(f, files[k]) : Stat(f, q) # "ok"

\* C13: the sizing step of a Paste or Delete that meets a path it cannot stat or walk is
\* the operation's return with an error; nothing has been copied, moved or removed by
\* then, and the step leaves the filesystem and ProgressInfo as they were
C13_SizingFailureFirst ==
    [][\A i \in DOMAIN ops :
          (/\ \/ ops[i].pc = "check" /\ Len(clipboard) > 0 /\ Unreadable(fs, clipboard)
              \/ ops[i].pc = "dsize" /\ Unreadable(fs, ops[i].files)
           /\ ops'[i] # ops[i])
              => /\ ops'[i].pc = "done" /\ ops'[i].err
                 /\ ops[i].acts = <<>> /\ ~ops[i].started
                 /\ fs' = fs
                 /\ progress' = progress]_vars

\* C13: a Delete whose second path is a directory that cannot be walked has returned an
\* error with its first path in place; a Delete of two paths has succeeded; a Paste of
\* staged paths that are gone has returned an error, and ProgressInfo is still the
\* second call's
C13_BothSizingsFailed ==
    /\ Len(ops) = 3
    /\ ops[1].kind = "delete" /\ ops[1].pc = "done" /\ ops[1].err
    /\ ops[2].kind = "delete" /\ ops[2].pc = "done" /\ ~ops[2].err
    /\ ops[3].kind = "paste" /\ ops[3].pc = "done" /\ ops[3].err
    /\ HasClipboard
    /\ progress.Operation = OpDelete /\ progress.ProcessedFiles = 2 /\ ~progress.Active

\* a Paste or Delete has failed on the path at idx of its list, after sizing
FailedAt(o) == o.started /\ o.pc = "return" /\ o.err

\* the tree below path p is what the operation found there when it sized its list
Untouched(f, o, p) ==
    \A q \in DOMAIN f \cup DOMAIN o.src0 :
        IsPrefix(p, q) => q \in DOMAIN f /\ q \in DOMAIN o.src0 /\ f[q] = o.src0[q]

\* C14: an operation that has met an error is at its return; there, every path after the
\* failing one is as sizing found it, every path before it is still copied, moved or
\* removed, and the return itself changes nothing in the filesystem
C14_AbortKeepsPrefix ==
    /\ [](\A i \in DOMAIN ops :
             /\ ops[i].err => ops[i].pc \in {"return", "done"}
             /\ FailedAt(ops[i]) =>
                    LET o == ops[i]
                        files == o.files
                    IN  /\ o.idx \in DOMAIN files
                        /\ \A k \in (o.idx + 1)..Len(files) : Untouched(fs, o, files[k])
                        /\ \A k \in 1..(o.idx - 1) :
                               /\ o.acts[k].src = files[k]
                               /\ o.acts[k].how = "copy" =>
                                      Exists(fs, files[k]) /\ Exists(fs, o.dsts[k])
                               /\ o.acts[k].how = "move" =>
                                      ~Exists(fs, files[k]) /\ Exists(fs, o.dsts[k])
                               /\ o.acts[k].how = "remove" => ~Exists(fs, files[k]))
    /\ [][\A i \in DOMAIN ops :
             (FailedAt(ops[i]) /\ ops'[i] # ops[i])
                 => ops'[i].pc = "done" /\ ops'[i].err /\ fs' = fs]_vars

\* C14: a Paste has returned an error and the copy of its first path is in place; a
\* Delete has then failed on its second path with the first one removed
C14_FailedOnSecond ==
    /\ Len(ops) = 2
    /\ ops[1].kind = "paste" /\ ops[1].pc = "done" /\ ops[1].err
    /\ Exists(fs, Join(P_d, CopyName(N_f, 1)))
    /\ FailedAt(ops[2]) /\ ops[2].kind = "delete" /\ ops[2].idx = 2
    /\ ~Exists(fs, ops[2].files[1])

\* C15: the destination a Paste resolves for a staged path is a name in destDir that does
\* not exist then, and no step of the Paste changes or removes anything that exists
\* outside that destination, except the source of a move
C15_NoOverwrite ==
    [][\A i \in DOMAIN ops :
          (ops[i].kind = "paste" /\ Running(i) /\ ops'[i] # ops[i]) =>
              LET o == ops[i]
              IN  /\ (o.pc # "br1" /\ ops'[i].pc = "br1") =>
                         /\ ~Exists(fs, ops'[i].destPath)
                         /\ Dir(ops'[i].destPath) = o.destDir
                  /\ fs' # fs => o.destPath # <<>>
                  /\ \A q \in DOMAIN fs :
                         (/\ ~IsPrefix(o.destPath, q)
                          /\ ~(o.pc = "br2" /\ IsPrefix(o.srcPath, q)))
                             => q \in DOMAIN fs' /\ fs'[q] = fs[q]]_vars

\* C15: two staged paths named f have been pasted twice into a directory that held a
\* file f: the four copies stand beside it under f_copy1 .. f_copy4, and the file that
\* was there is as it was
C15_PastedTwiceBeside ==
    /\ \E i \in DOMAIN ops : PasteSucceeds(ops[i]) /\ ops[i].destDir = P_d
    /\ \A n \in 1..4 : Exists(fs, Join(P_d, CopyName(N_f, n)))
    /\ Exists(fs, P_df) /\ fs[P_df] = CallFs[P_df]

\* the N-th name getUniqueDestPath tries for dest
Probe(dest, n) == Join(Dir(dest), CopyName(Base(dest), n))

\* dest itself when it is free, otherwise the probe of the smallest N >= 1 that is free
FirstFree(f, dest) ==
    IF ~Exists(f, dest) THEN dest
    ELSE Probe(dest, CHOOSE n \in 1..CounterWrap :
                         /\ ~Exists(f, Probe(dest, n))
                         /\ \A k \in 1..(n - 1) : Exists(f, Probe(dest, k)))

\* C16: getUniqueDestPath tries N only after it found dest and every smaller N taken,
\* and what it returns for dest is dest itself when that is free and otherwise
\* name_copyN.ext for the smallest N >= 1 that is free
C16_SmallestFreeName ==
    /\ [](\A i \in DOMAIN ops :
             ops[i].pc = "probe" =>
                 LET dest == Join(ops[i].destDir, Base(ops[i].srcPath))
                 IN  /\ ops[i].counter >= 1
                     /\ Exists(fs, dest)
                     /\ \A k \in 1..(ops[i].counter - 1) : Exists(fs, Probe(dest, k)))
    /\ [][\A i \in DOMAIN ops :
             (ops[i].pc \in {"range", "count", "probe"} /\ ops'[i].pc = "br1")
                 => ops'[i].destPath
                        = FirstFree(fs, Join(ops[i].destDir, Base(ops'[i].srcPath)))]_vars

\* C16: for 1.t, in a directory that holds 1.t and 1_copy1.t, getUniqueDestPath has
\* returned 1_copy2.t
C16_SecondCopyName ==
    \E i \in DOMAIN ops :
        /\ ops[i].pc = "br1" /\ ops[i].srcPath = P_d1txt
        /\ ops[i].destPath = <<N_d, <<"1", "_copy", "2", ".", "t">>>>
        /\ Exists(fs, P_d1txt) /\ Exists(fs, <<N_d, <<"1", "_copy", "1", ".", "t">>>>)

\* the tree at path p, by the paths relative to p
TreeAt(f, p) ==
    [r \in {SubSeq(q, Len(p) + 1, Len(q)) : q \in Under(f, p)} |-> f[p \o r]]

\* C17: when a Copy-Paste is about to return without an error, every staged path is
\* still where it was with the tree it had when the Paste began, and for each of them
\* the destination directory holds an entry with the same tree
C17_CopyKeepsSourceAndCopies ==
    \A i \in DOMAIN ops :
        CopyPasteSucceeds(ops[i]) =>
            /\ Len(ops[i].dsts) = Len(ops[i].staged)
            /\ \A k \in DOMAIN ops[i].staged :
                  /\ Exists(fs, ops[i].staged[k])
                  /\ Untouched(fs, ops[i], ops[i].staged[k])
                  /\ Dir(ops[i].dsts[k]) = ops[i].destDir
                  /\ Exists(fs, ops[i].dsts[k])
                  /\ TreeAt(fs, ops[i].dsts[k]) = TreeAt(ops[i].src0, ops[i].staged[k])

\* C17: a Copy-Paste of a file and of a directory that holds files is about to return
\* without an error, and the directory's copy holds a file that is not empty
C17_CopiedFileAndDir ==
    \E i \in DOMAIN ops :
        /\ CopyPasteSucceeds(ops[i])
        /\ \E k \in DOMAIN ops[i].staged :
              /\ fs[ops[i].staged[k]].isDir
              /\ \E q \in Under(fs, ops[i].dsts[k]) : ~fs[q].isDir /\ fs[q].size > 0
        /\ \E k \in DOMAIN ops[i].staged : ~fs[ops[i].staged[k]].isDir

\* a Paste that began with Cut staged has moved every staged path and is about to
\* return without an error
CutPasteSucceeds(o) ==
    /\ o.kind = "paste" /\ o.stagedOp = OpCut
    /\ o.pc = "return" /\ ~o.err
    /\ o.acts = [k \in DOMAIN o.staged |-> [src |-> o.staged[k], how |-> "move"]]

\* C18: when a Cut-Paste is about to return without an error, no staged path exists any
\* more, and for each of them the destination directory holds an entry with the tree the
\* path had when the Paste began
C18_CutMovesSource ==
    \A i \in DOMAIN ops :
        CutPasteSucceeds(ops[i]) =>
            /\ Len(ops[i].dsts) = Len(ops[i].staged)
            /\ \A k \in DOMAIN ops[i].staged :
                  /\ ~Exists(fs, ops[i].staged[k])
                  /\ Dir(ops[i].dsts[k]) = ops[i].destDir
                  /\ Exists(fs, ops[i].dsts[k])
                  /\ TreeAt(fs, ops[i].dsts[k]) = TreeAt(ops[i].src0, ops[i].staged[k])

\* C18: a Cut-Paste is about to return without an error, and at the path its first
\* staged file had there is the file that was its second staged path
C18_SourcePathRefilled ==
    \E i \in DOMAIN ops :
        /\ CutPasteSucceeds(ops[i])
        /\ Len(ops[i].staged) = 2
        /\ Exists(fs, ops[i].staged[1])
        /\ ops[i].dsts[2] = ops[i].staged[1]
        /\ fs[ops[i].staged[1]] = ops[i].src0[ops[i].staged[2]]
        /\ fs[ops[i].staged[1]] # ops[i].src0[ops[i].staged[1]]

\* a Delete has removed every listed path and is about to return without an error
DeleteSucceeds(o) ==
    /\ o.kind = "delete" /\ o.started
    /\ o.pc = "return" /\ ~o.err
    /\ o.acts = [k \in DOMAIN o.files |-> [src |-> o.files[k], how |-> "remove"]]

\* C19: when a Delete is about to return without an error, nothing of what the listed
\* paths held when it began exists any more, and its return leaves ProcessedFiles and
\* TotalFiles at the number of listed paths and Active false
C19_DeleteRemovesAll ==
    /\ [](\A i \in DOMAIN ops :
             DeleteSucceeds(ops[i]) =>
                 /\ \A k \in DOMAIN ops[i].files : ~Exists(fs, ops[i].files[k])
                 /\ \A q \in DOMAIN ops[i].src0 : ~Exists(fs, q))
    /\ [][\A i \in DOMAIN ops :
             (DeleteSucceeds(ops[i]) /\ ops'[i].pc = "done")
                 => /\ fs' = fs
                    /\ progress'.ProcessedFiles = Len(ops[i].files)
                    /\ progress'.TotalFiles = Len(ops[i].files)
                    /\ ~progress'.Active]_vars

\* C19: a Delete of a directory that held files and of a file is about to return without
\* an error, with both paths counted
C19_DeletedDirAndFile ==
    \E i \in DOMAIN ops :
        /\ DeleteSucceeds(ops[i])
        /\ Len(ops[i].files) = 2
        /\ \E k \in DOMAIN ops[i].files :
              /\ ops[i].src0[ops[i].files[k]].isDir
              /\ \E q \in DOMAIN ops[i].src0 : IsProperPrefix(ops[i].files[k], q)
        /\ \E k \in DOMAIN ops[i].files : ~ops[i].src0[ops[i].files[k]].isDir
        /\ progress.ProcessedFiles = 2 /\ progress.TotalFiles = 2

\* one path of the list does not exist and another one does
OneMissing(f, files) ==
    /\ \E k \in DOMAIN files : Stat(f, files[k]) = "notexist"
    /\ \E k \in DOMAIN files : Exists(f, files[k])

\* C20: a Delete called with a list in which one path does not exist and another does
\* returns an error, leaving the filesystem and the progress as they were; and no step
\* of a Delete brings back a path that is gone
C20_MissingPathError ==
    /\ [][\A i \in DOMAIN ops :
             (/\ ops[i].kind = "delete" /\ ops[i].pc = "dsize" /\ ops'[i].pc # "dsize"
              /\ OneMissing(fs, ops[i].files))
                 => /\ ops'[i].pc = "done" /\ ops'[i].err
                    /\ fs' = fs
                    /\ progress' = progress]_vars
    /\ [][\A i \in DOMAIN ops :
             (ops[i].kind = "delete" /\ ops[i].pc # "done")
                 => DOMAIN fs' \subseteq DOMAIN fs]_vars

\* C20: after a Cut-Paste has moved /f away, a Delete has returned an error; each list
\* it can have been called with names /f, which is gone, and a path that is still there
C20_DeleteAfterMoveFailed ==
    /\ Len(ops) = 2
    /\ ops[1].kind = "paste" /\ ops[1].pc = "done" /\ ~ops[1].err
    /\ ops[2].kind = "delete" /\ ops[2].pc = "done" /\ ops[2].err
    /\ ~Exists(fs, P_f) /\ Exists(fs, <<N_t, N_f>>)
    /\ \A files \in CallDeleteLists : OneMissing(fs, files)

\* the step is a call of the method `call` that returns
Returns(call) == ret' # ret /\ ret'.call = call

C22_EmptyNameError ==
    [][(Returns("Rename") /\ ret'.args[2] = <<>>)
          => /\ ret'.err # "nil"
             /\ fs' = fs]_vars

\* C22: Rename("/", "") has returned nil
C22_RootEmptyNameAccepted ==
    /\ ret.call = "Rename" /\ ret.args = <<<<>>, <<>>>>
    /\ ret.err = "nil"

\* the step changes nothing but ret
OnlyReturns ==
    UNCHANGED <<fs, clipboard, operation, selectedFiles, progress, ops, uiPc,
                lastOperationWasActive, progressHideTime, Mu, navigator,
                   bookmarks>>

\* the Rename that returns on this step is of an entry that exists, not the root, to a
\* name that is not empty and that nothing in the entry's directory has
RenamesToFreeName ==
    /\ Returns("Rename")
    /\ ret'.args[1] # <<>> /\ Exists(fs, ret'.args[1])
    /\ ret'.args[2] # <<>> /\ ~Exists(fs, Append(Dir(ret'.args[1]), ret'.args[2]))

\* C23: a Rename to oldPath's own base name returns nil and changes nothing; a Rename to
\* a free name moves the entry, so that oldPath is gone and the new path is there
C23_RenameMoves ==
    [][/\ (Returns("Rename") /\ ret'.args[2] = Base(ret'.args[1]))
            => ret'.err = "nil" /\ OnlyReturns
       /\ RenamesToFreeName
            => /\ ~Exists(fs', ret'.args[1])
               /\ Exists(fs', Append(Dir(ret'.args[1]), ret'.args[2]))]_vars

\* C23, with the refusal of the host: a Rename to oldPath's own base name returns nil and
\* changes nothing; a Rename to a free name returns nil exactly when oldPath's directory
\* can be written, and then oldPath is gone, the new path holds the tree oldPath held and
\* nothing else has changed; otherwise it returns os.Rename's error and changes nothing
C23_RenameMovesIfPermitted ==
    [][/\ (Returns("Rename") /\ ret'.args[2] = Base(ret'.args[1]))
            => ret'.err = "nil" /\ OnlyReturns
       /\ RenamesToFreeName
            => LET oldPath == ret'.args[1]
                   newPath == Append(Dir(oldPath), ret'.args[2])
               IN  /\ ret'.err = "nil" <=> Dir(oldPath) \notin NoWrite
                   /\ ret'.err = "nil"
                        => /\ ~Exists(fs', oldPath)
                           /\ Exists(fs', newPath)
                           /\ TreeAt(fs', newPath) = TreeAt(fs, oldPath)
                           /\ \A q \in DOMAIN fs \cup DOMAIN fs' :
                                 (~IsPrefix(oldPath, q) /\ ~IsPrefix(newPath, q))
                                     => q \in DOMAIN fs /\ q \in DOMAIN fs' /\ fs'[q] = fs[q]
                   /\ ret'.err # "nil" => ret'.err = "os" /\ fs' = fs
                   /\ UNCHANGED <<clipboard, operation, selectedFiles, progress, bookmarks>>]_vars

\* C23: Rename(/d, "x") has returned nil; /d is gone and /x holds the files /d held
C23_RenamedDir ==
    /\ ret.call = "Rename" /\ ret.args = <<P_d, N_x>> /\ ret.err = "nil"
    /\ ~Exists(fs, P_d)
    /\ Exists(fs, <<N_x>>) /\ TreeAt(fs, <<N_x>>) = TreeAt(CallFs, P_d)

\* the filesystem f with one more entry, node, at path
WithEntry(f, path, node) == [q \in DOMAIN f \cup {path} |-> IF q = path THEN node ELSE f[q]]

\* C24: CreateFile and CreateFolder return an error and leave the filesystem as it was
\* when the name is empty or dir/name exists; otherwise they return nil and have created
\* exactly that entry, an empty file or a directory
C24_CreateOneEntry ==
    [][(Returns("CreateFile") \/ Returns("CreateFolder")) =>
          LET dir == ret'.args[1]
              name == ret'.args[2]
              node == IF ret'.call = "CreateFile" THEN FileNode(0, 0) ELSE DirNode
          IN  IF name = <<>> \/ Exists(fs, Append(dir, name))
              THEN ret'.err # "nil" /\ fs' = fs
              ELSE ret'.err = "nil" /\ fs' = WithEntry(fs, Append(dir, name), node)]_vars

\* C24, with the refusal of the host: an empty name gives the "empty" error and an
\* existing dir/name the "exists" error, the filesystem left as it was; otherwise the
\* call returns nil exactly when dir is a directory that can be entered and written, having created
\* exactly that entry, and else returns the host's error and creates nothing
C24_CreateOneEntryIfPermitted ==
    [][(Returns("CreateFile") \/ Returns("CreateFolder")) =>
          LET dir == ret'.args[1]
              name == ret'.args[2]
              node == IF ret'.call = "CreateFile" THEN FileNode(0, 0) ELSE DirNode
              permitted == /\ Exists(fs, dir) /\ fs[dir].isDir
                           /\ dir \notin NoWrite /\ dir \notin NoSearch
          IN  /\ IF name = <<>> THEN ret'.err = "empty" /\ fs' = fs
                 ELSE IF Exists(fs, Append(dir, name)) THEN ret'.err = "exists" /\ fs' = fs
                 ELSE IF permitted
                 THEN ret'.err = "nil" /\ fs' = WithEntry(fs, Append(dir, name), node)
                 ELSE ret'.err = "os" /\ fs' = fs
              /\ UNCHANGED <<clipboard, operation, selectedFiles, progress, bookmarks>>]_vars

\* C24: after CreateFile(/d, "x") made the empty file /d/x, CreateFolder(/d, "x") has
\* returned the "exists" error and the file is as it was
C24_FolderRefusedOverFile ==
    /\ ret.call = "CreateFolder" /\ ret.args = <<P_d, N_x>> /\ ret.err = "exists"
    /\ ret.n = 2
    /\ fs = WithEntry(CallFs, <<N_d, N_x>>, FileNode(0, 0))

\* C25: in every selection state two ToggleSelection(p) in a row give back the state
\* they began with, for every path p; and one ToggleSelection(p) flips IsSelected(p) and
\* leaves IsSelected(q) as it was for every other path q
C25_ToggleFlips ==
    /\ [](\A p \in EditPaths :
             LET once == ToggleSelection(selectedFiles, p)
                 twice == ToggleSelection(once, p)
             IN  /\ IsSelected(once, p) = ~IsSelected(selectedFiles, p)
                 /\ IsSelected(twice, p) = IsSelected(selectedFiles, p)
                 /\ twice = selectedFiles)
    /\ [][Returns("ToggleSelection") =>
             LET p == ret'.args[1]
             IN  /\ IsSelected(selectedFiles', p) = ~IsSelected(selectedFiles, p)
                 /\ \A q \in (EditPaths \cup DOMAIN selectedFiles
                                      \cup DOMAIN selectedFiles') \ {p} :
                       IsSelected(selectedFiles', q) = IsSelected(selectedFiles, q)]_vars

\* C25: the third call, ToggleSelection(/f), has just taken /f out of the selection,
\* and /d, selected before it, still is selected
C25_ToggledOff ==
    /\ ret.call = "ToggleSelection" /\ ret.args = <<P_f>> /\ ret.n = 3
    /\ DOMAIN selectedFiles = {P_d} /\ IsSelected(selectedFiles, P_d)

\* C26: in every state GetSelectedCount() is the number of paths for which IsSelected
\* holds and the length of every list GetSelectedFiles() can return, and such a list
\* names each selected path once and nothing else; a ClearSelection() leaves the count
\* at 0 and no path selected
C26_SelectionCounts ==
    /\ [](LET isSel == {p \in EditPaths \cup DOMAIN selectedFiles :
                           IsSelected(selectedFiles, p)}
          IN  /\ GetSelectedCount(selectedFiles) = Cardinality(isSel)
              /\ \A l \in GetSelectedFiles(selectedFiles) :
                    /\ Len(l) = GetSelectedCount(selectedFiles)
                    /\ \A p \in isSel : Cardinality({i \in DOMAIN l : l[i] = p}) = 1
                    /\ \A i \in DOMAIN l : l[i] \in isSel)
    /\ [][Returns("GetSelectedFiles")
             => ret'.args \in GetSelectedFiles(selectedFiles)]_vars
    /\ [][Returns("ClearSelection")
             => /\ GetSelectedCount(selectedFiles') = 0
                /\ \A p \in EditPaths \cup DOMAIN selectedFiles :
                      ~IsSelected(selectedFiles', p)]_vars

\* C26: with two paths selected, GetSelectedFiles() has returned a list of those two
\* paths, the count being 2
C26_ListedTwo ==
    /\ ret.call = "GetSelectedFiles" /\ Len(ret.args) = 2
    /\ ret.args[1] # ret.args[2]
    /\ IsSelected(selectedFiles, ret.args[1]) /\ IsSelected(selectedFiles, ret.args[2])
    /\ GetSelectedCount(selectedFiles) = 2

\* C27: a Copy or Cut leaves the clipboard holding exactly the paths it was given, in
\* their order, under the tag Copy or Cut, whatever was staged before, and changes
\* neither the filesystem, nor the progress, nor the selection
C27_StagingReplaces ==
    [][(Returns("Copy") \/ Returns("Cut"))
          => /\ clipboard' = ret'.args
             /\ operation' = (IF ret'.call = "Copy" THEN OpCopy ELSE OpCut)
             /\ UNCHANGED <<fs, progress, selectedFiles, bookmarks>>]_vars

\* C27: as the third call, Cut of the one path /d/1.t has returned while a path is
\* selected; the clipboard holds that path alone, tagged Cut, and the selection is kept
C27_RestagedOne ==
    /\ ret.call = "Cut" /\ ret.args = <<P_d1txt>> /\ ret.n = 3
    /\ clipboard = <<P_d1txt>> /\ operation = OpCut
    /\ GetSelectedCount(selectedFiles) = 1
    /\ fs = CallFs

\* C28: whenever the current directory changes (arrow key, double click, a path
\* confirmed in path-edit mode, a bookmark), the selection is empty afterwards
C28_DirChangeClears ==
    [][navigator'.currentDir # navigator.currentDir
       => GetSelectedCount(selectedFiles') = 0]_vars

\* the browser stands in /d while /f, an entry of the root, is still selected
C28_SelectionFromOtherDir ==
    /\ navigator.currentDir = P_d
    /\ IsSelected(selectedFiles, P_f)

\* C29: when a Cut-Paste, a Delete or a Rename has completed without an error, the
\* selection is empty
C29_CompletionClears ==
    [][(\/ \E i \in DOMAIN ops :
              /\ CutPasteSucceeds(ops[i]) \/ DeleteSucceeds(ops[i])
              /\ ops'[i].pc = "done"
        \/ Returns("Rename") /\ ret'.err = "nil")
       => GetSelectedCount(selectedFiles') = 0]_vars

\* /f was selected and then renamed to /x: the selection still holds /f, which is gone
C29_RenamedStillSelected ==
    /\ ret.call = "Rename" /\ ret.err = "nil" /\ ret.args = <<P_f, N_x>>
    /\ IsSelected(selectedFiles, P_f)
    /\ ~Exists(fs, P_f)

\* C30: the step that marks an operation finished changes no field of the progress
\* record but Active; and while the record is inactive its fields change only when the
\* input loop clears them (updateProgressDisplay) or when the next operation starts
C30_FinishChangesOnlyActive ==
    [][/\ (progress.Active /\ ~progress'.Active)
          => \A k \in DOMAIN progress \ {"Active"} : progress'[k] = progress[k]
       /\ (~progress.Active /\ progress' # progress)
          => \/ uiPc = "clear" /\ uiPc' # "clear"
             \/ progress'.Active]_vars

\* a Paste of two paths has returned and the inactive record still shows its totals, its
\* counts and the file it copied last
C30_TotalsKeptAfterReturn ==
    /\ \E i \in DOMAIN ops : ops[i].pc = "done" /\ ~ops[i].err
    /\ ~progress.Active
    /\ progress.Operation = OpCopy
    /\ progress.TotalFiles = 2 /\ progress.ProcessedFiles = 2
    /\ progress.TotalBytes > 0 /\ progress.ProcessedBytes = progress.TotalBytes
    /\ progress.CurrentFile # <<>>

\* C31: GetProgressPercent is 0 when TotalBytes is 0 and the integer quotient
\* ProcessedBytes*100/TotalBytes otherwise, and whatever the progress record holds when
\* it is read, the result lies between 0 and 100
C31_PercentInRange ==
    LET percent == GetProgressPercent(progress)
    IN  /\ progress.TotalBytes = 0 => percent = 0
        /\ progress.TotalBytes # 0
           => /\ percent * progress.TotalBytes <= progress.ProcessedBytes * 100
              /\ (percent + 1) * progress.TotalBytes > progress.ProcessedBytes * 100
        /\ percent \in 0..100

\* a Delete has published the bytes of /f under the total of a Paste that started after
\* it: the percentage read is above 100
C31_PercentAbove100 ==
    /\ progress.Active
    /\ progress.Operation = OpCopy
    /\ GetProgressPercent(progress) > 100

\* no goroutine stands inside RefreshFileList
NoRefreshRunning == \A i \in DOMAIN ops : ops[i].pc \notin {"list", "cursor"}

\* C32: wherever the Navigator stands between two refreshes, with a non-empty list
\* MoveDown on the last entry puts the cursor on the first and MoveUp on the first
\* puts it on the last, on any other entry they move the cursor by exactly one, and
\* with an empty list they change nothing
C32_MovesWrap ==
    LET n == navigator
        len == Len(n.fileList)
        down == MoveDown(n, VisibleLines)
        up == MoveUp(n, VisibleLines)
    IN  NoRefreshRunning
        => /\ (len > 0 /\ n.cursor = len - 1) => down.cursor = 0
           /\ (len > 0 /\ n.cursor = 0) => up.cursor = len - 1
           /\ (len > 0 /\ n.cursor \in 0..(len - 2)) => down.cursor = n.cursor + 1
           /\ (len > 0 /\ n.cursor \in 1..(len - 1)) => up.cursor = n.cursor - 1
           /\ len = 0 => down = n /\ up = n

\* the directory the browser stands in has been deleted: the refresh after the Delete
\* has left an empty list under a cursor that is not 0, and MoveUp moves that cursor
C32_MoveUpOnEmptyList ==
    /\ \E i \in DOMAIN ops : ops[i].pc = "shown"
    /\ navigator.fileList = <<>>
    /\ navigator.cursor > 0
    /\ MoveUp(navigator, VisibleLines).cursor = navigator.cursor - 1

\* C33: between two refreshes, with a non-empty list the cursor lies inside the
\* displayed window: scrollOffset <= cursor < scrollOffset + visibleLines
C33_CursorInWindow ==
    (NoRefreshRunning /\ Len(navigator.fileList) > 0)
    => /\ navigator.scrollOffset <= navigator.cursor
       /\ navigator.cursor < navigator.scrollOffset + VisibleLines

\* no Delete was ever started, the list is not empty, and the cursor stands above the
\* window
C33_CursorAboveWindow ==
    /\ ops = <<>>
    /\ Len(navigator.fileList) > 0
    /\ navigator.cursor < navigator.scrollOffset

\* C38: under no interleaving of the input loop with the refresh a goroutine performs
\* when its Delete has returned is the file list indexed at a cursor that is not smaller
\* than its length
C38_NoIndexOutOfRange == ~navigator.panic

\* the goroutine has written the shorter list and not yet adjusted the cursor, and the
\* input loop's EnterDirectory has indexed the list at the stale cursor
C38_PanicDuringRefresh ==
    /\ navigator.panic
    /\ \E i \in DOMAIN ops : ops[i].pc = "cursor"
    /\ navigator.cursor >= Len(navigator.fileList)
    /\ Len(navigator.fileList) > 0

\* C34: Toggle on a path that is not bookmarked adds it and returns true, Toggle on a
\* bookmarked path removes it and returns false, so that a second Toggle of the same
\* path restores Count and IsBookmarked; a path and the same path with a trailing
\* separator are one bookmark, and the list never holds a path twice.
C34_ToggleTwiceRestores ==
    /\ \A i, j \in 1..Len(bookmarks) :
          i # j => /\ bookmarks[i].Path # bookmarks[j].Path
                   /\ bookmarks[i].Path # Slash(bookmarks[j].Path)
    /\ ret.call = "Toggle" => ret.value = IsBookmarked(bookmarks, ret.args[1])
    /\ \A path \in BookPaths :
          LET was == IsBookmarked(bookmarks, path)
              t1 == Toggle(bookmarks, path)
              t2 == Toggle(t1.bookmarks, path)
              s2 == Toggle(t1.bookmarks, Slash(path))
          IN  /\ t1.added = ~was
              /\ Count(t1.bookmarks) = Count(bookmarks) + (IF was THEN -1 ELSE 1)
              /\ IsBookmarked(t1.bookmarks, path) = ~was
              /\ t2.added = was
              /\ Count(t2.bookmarks) = Count(bookmarks)
              /\ IsBookmarked(t2.bookmarks, path) = was
              /\ IsBookmarked(bookmarks, Slash(path)) = was
              /\ s2.added = was
              /\ Count(s2.bookmarks) = Count(bookmarks)

\* /d was bookmarked next to another path and Toggle("/d/") has just removed it
C34_RemovedThroughSlash ==
    /\ ret.call = "Toggle"
    /\ ret.args = <<Slash(P_d)>>
    /\ ret.value = FALSE
    /\ ~IsBookmarked(bookmarks, P_d)
    /\ Count(bookmarks) >= 1

\* C35: the step by which a Delete returns without an error leaves the published
\* ProcessedBytes equal to TotalBytes, the size the Delete computed for its paths, and
\* the Delete's own count of bytes is the sum of the sizes it measured before removing
C35_DeleteEndsAtTotal ==
    [][\A i \in DOMAIN ops :
          (/\ ops[i].kind = "delete" /\ ops[i].pc = "return" /\ ~ops[i].err
           /\ ops'[i].pc = "done")
              => /\ ops[i].processedBytes = ops[i].totalSize
                 /\ progress'.TotalBytes = ops[i].totalSize
                 /\ progress'.ProcessedBytes = ops[i].totalSize]_vars

\* C35: the last call, a Delete of two paths, has returned without an error having
\* counted both, and the published ProcessedBytes is below TotalBytes
C35_DeleteEndsBehind ==
    /\ ops # <<>>
    /\ LET o == ops[Len(ops)]
       IN  o.kind = "delete" /\ o.pc = "done" /\ ~o.err
    /\ progress.Operation = OpDelete /\ ~progress.Active
    /\ progress.TotalFiles = 2 /\ progress.ProcessedFiles = 2
    /\ progress.ProcessedBytes < progress.TotalBytes

\* the bytes of the files at and below each path of a list, added up
RECURSIVE ListBytes(_, _)
ListBytes(f, files) ==
    IF files = <<>> THEN 0
    ELSE SumSizes(f, {q \in Under(f, Head(files)) : ~f[q].isDir}) + ListBytes(f, Tail(files))

\* the list a Paste or Delete works on
ListedBy(o) == IF o.kind = "paste" THEN o.staged ELSE o.files

\* C36: the step by which a Paste or Delete leaves sizing sets TotalFiles to the number of
\* listed paths and TotalBytes to the bytes of the files at and below them; while the
\* operation is in progress ProcessedFiles is the number of paths before the one at idx,
\* all of them handled, the counting step adds exactly one and no other step of the
\* operation changes it, so that at an abort, where idx is the failing path, it is the
\* number of completed paths
C36_TotalsAndCount ==
    /\ [][\A i \in DOMAIN ops :
             (ops[i].pc \in {"start", "dstart"} /\ ops'[i].pc # ops[i].pc)
                 => /\ progress'.TotalFiles = Len(ListedBy(ops[i]))
                    /\ progress'.TotalBytes = ListBytes(fs, ListedBy(ops[i]))]_vars
    /\ [][\A i \in DOMAIN ops :
             (InProgress(ops[i]) /\ InProgress(ops'[i]) /\ ops'[i] # ops[i])
                 => progress'.ProcessedFiles =
                        progress.ProcessedFiles
                            + (IF ops[i].pc \in {"count", "dcount"} THEN 1 ELSE 0)]_vars
    /\ [](\A i \in DOMAIN ops :
             InProgress(ops[i])
                 => /\ progress.ProcessedFiles = ops[i].idx - 1
                    /\ \A k \in 1..(ops[i].idx - 1) : k \in DOMAIN ops[i].acts
                    /\ FailedAt(ops[i]) => ops[i].idx \in DOMAIN ListedBy(ops[i]))

\* C36: a Paste of a file and a directory has copied the file and failed on the
\* directory: one of two paths is counted, and the total holds the directory's files
C36_AbortedAfterOne ==
    \E i \in DOMAIN ops :
        /\ FailedAt(ops[i]) /\ ops[i].kind = "paste"
        /\ ops[i].staged = <<P_f, P_d>>
        /\ progress.TotalFiles = 2 /\ progress.ProcessedFiles = 1
        /\ progress.TotalBytes > ListBytes(fs, <<P_f>>)

\* C37: the step of updateProgressDisplay that zeroes the counters is taken only while no
\* operation is active, none being between its startProgress and its finishProgress
C37_ClearsOnlyWhenIdle ==
    [][(uiPc = "clear" /\ uiPc' # "clear")
          => /\ ~progress.Active
             /\ \A i \in DOMAIN ops : ~InProgress(ops[i])]_vars

\* C37: an operation that sized its paths at more than 0 bytes is active and in progress,
\* and the totals it set have been zeroed
C37_ZeroedWhileRunning ==
    \E i \in DOMAIN ops :
        /\ InProgress(ops[i]) /\ ops[i].pc # "return"
        /\ ops[i].totalSize > 0
        /\ progress.Active
        /\ progress.TotalBytes = 0 /\ progress.TotalFiles = 0

\* C39: a Paste called with Cut staged that has failed on a path finds, at its return,
\* the clipboard and the tag as they were when it was called, and the return leaves them so
C39_FailedCutKeepsClipboard ==
    /\ [](\A i \in DOMAIN ops :
             (FailedAt(ops[i]) /\ ops[i].kind = "paste" /\ ops[i].stagedOp = OpCut)
                 => /\ clipboard = ops[i].staged
                    /\ operation = OpCut
                    /\ ~ops[i].cleared)
    /\ [][\A i \in DOMAIN ops :
             (/\ FailedAt(ops[i]) /\ ops[i].kind = "paste" /\ ops[i].stagedOp = OpCut
              /\ ops'[i].pc = "done")
                 => clipboard' = clipboard /\ operation' = operation]_vars

\* C39: a Cut-Paste has moved its first path and failed on the second; the clipboard
\* still lists the first, which is no longer there
C39_MovedPathStillStaged ==
    \E i \in DOMAIN ops :
        /\ FailedAt(ops[i]) /\ ops[i].kind = "paste" /\ ops[i].stagedOp = OpCut
        /\ ops[i].idx = 2
        /\ Len(clipboard) = 2
        /\ ~Exists(fs, clipboard[1])
        /\ operation = OpCut

\* C40: whenever some Paste or Delete is between its startProgress and its return,
\* IsOperationActive is true
C40_ActiveWhileAnyRuns ==
    (\E i \in DOMAIN ops : InProgress(ops[i])) => IsOperationActive

\* C40: two operations have started; one has returned, the other is still handling its
\* paths, and IsOperationActive is false
C40_InactiveWhileSecondRuns ==
    \E i, j \in DOMAIN ops :
        /\ ops[i].pc = "done" /\ ~ops[i].err
        /\ InProgress(ops[j]) /\ ops[j].pc \notin {"return", "start", "dstart"}
        /\ ~IsOperationActive

====
